---------------------------- MODULE Spec2Model ----------------------------
(***************************************************************************)
(* A model of mongoose-edgeapi: the parameter-to-query compiler            *)
(* (buildQueryFromParams with processModifier), the pagination meta        *)
(* builder (crud.buildResultsMeta), the offset computation of crud.find    *)
(* and the handlers that feed them.                                        *)
(*                                                                         *)
(* JavaScript values are tagged records [t, v]:                            *)
(*   strings are sequences of one-character strings, so that split,        *)
(*   indexOf and the escaping of processModifier are computed;             *)
(*   mappings are sequences of key/value pairs in property order, because  *)
(*   _.each visits them in that order while the callback mutates them;     *)
(*   a key is the sequence of its dot-separated segments.                  *)
(***************************************************************************)
EXTENDS Integers, Sequences, FiniteSets, TLC

VARIABLES
    pc,         \* position of the scenario being run
    params,     \* compiler: the parameter set handed to buildQueryFromParams
    fields,     \* the whitelist derived from the schema
    compiled,   \* compiler: outcome of the first compile
    recompiled, \* compiler: outcome of compiling the compiled output again
    config,     \* the configuration in effect: queryLimit, queryOffset, querySort
    args,       \* the arguments of the crud call being made
    issued,     \* the calls made to the store (the mongoose Model), in order
    meta,       \* the pagination meta of buildResultsMeta and its promise
    request,    \* the request as the transport delivered it to the handler
    owned,      \* the transport's own parameter objects, as they are now
    sent,       \* the responses sent and the events emitted, in order
    bound,      \* the handler and CRUD sets created by the bind calls so far
    store,      \* the collection: how many documents the query in hand matches
    promise,    \* the promise of the crud call in hand, and how it was settled
    trail       \* the middleware, handlers and callbacks that have run, in order

compVars == <<params, fields, compiled, recompiled>>
crudVars == <<config, args, issued, meta>>
handlerVars == <<request, owned, sent>>
serveVars == <<bound, store, promise, trail>>
vars == <<pc, compVars, crudVars, handlerVars, serveVars>>

-----------------------------------------------------------------------------
(* JavaScript values *)

Str(s) == [t |-> "str", v |-> s]
Num(n) == [t |-> "num", v |-> n]
Null == [t |-> "null", v |-> 0]
Undefined == [t |-> "undef", v |-> 0]
Map(ps) == [t |-> "map", v |-> ps]
Arr(xs) == [t |-> "arr", v |-> xs]
Re(p, f) == [t |-> "re", v |-> <<p, f>>]
Bool(b) == [t |-> "bool", v |-> b]
\* a string holding the JSON text of x, and a string that is not JSON
JsonText(x) == [t |-> "json", v |-> x]
NotJson == Str(<<"{">>)
Pair(k, x) == [k |-> k, val |-> x]

\* outcome of a call: the value it returns (or, when it throws, the state it
\* leaves the object it was mutating in) and the error it throws
Ok(x) == [val |-> x, err |-> "none"]
Err(x, e) == [val |-> x, err |-> e]

\* _.isObject: objects, arrays and functions, not null
IsObject(x) == x.t \in {"map", "arr", "re"}

\* 'object' === typeof value: also true of null
TypeofObject(x) == x.t \in {"map", "arr", "re", "null"}

IsScalar(x) == x.t \in {"str", "num"}

-----------------------------------------------------------------------------
(* Mappings as ordered property lists *)

HasKey(ps, k) == \E i \in 1..Len(ps) : ps[i].k = k

Get(ps, k) ==
    IF HasKey(ps, k)
    THEN ps[CHOOSE i \in 1..Len(ps) : ps[i].k = k].val
    ELSE Undefined

\* delete params[key]
Delete(ps, k) == SelectSeq(ps, LAMBDA p : p.k # k)

\* params[key] = value: an existing property keeps its position, a new one
\* is appended
Put(ps, k, x) ==
    IF HasKey(ps, k)
    THEN [i \in 1..Len(ps) |-> IF ps[i].k = k THEN Pair(k, x) ELSE ps[i]]
    ELSE Append(ps, Pair(k, x))

KeysOf(ps) == [i \in 1..Len(ps) |-> ps[i].k]

-----------------------------------------------------------------------------
(* Configuration *)

queryOperatorIgnore ==
    { "$addToSet", "$all", "$and", "$bit", "$box", "$center", "$centerSphere",
      "$comment", "$each", "$elemMatch (query)", "$exists", "$explain",
      "$geoIntersects", "$geoWithin", "$geometry", "$gt", "$gte", "$hint",
      "$in", "$inc", "$isolated", "$lt", "$lte", "$max", "$maxDistance",
      "$maxScan", "$min", "$mod", "$natural", "$ne", "$near", "$nearSphere",
      "$nin", "$nor", "$not", "$or", "$orderby", "$polygon", "$pop", "$pull",
      "$pullAll", "$push", "$pushAll", "$query", "$regex", "$rename",
      "$returnKey", "$set", "$setOnInsert", "$showDiskLoc", "$size", "$slice",
      "$snapshot", "$sort", "$type", "$uniqueDocs", "$unset", "$where",
      "$elemMatch",
      "$add", "$avg", "$cmp", "$concat", "$cond", "$dayOfMonth", "$dayOfWeek",
      "$dayOfYear", "$divide", "$eq", "$first", "$geoNear", "$group", "$hour",
      "$ifNull", "$last", "$limit", "$match", "$millisecond", "$minute",
      "$month", "$multiply", "$project", "$second", "$skip", "$strcasecmp",
      "$substr", "$subtract", "$sum", "$toLower", "$toUpper", "$unwind",
      "$week", "$year" }

fieldModifiers == { "contains", "regex" }

\* as IsOperatorKey, by a compiler that knows no operator
IsOperatorKeyNever(k) == FALSE

\* ~_.indexOf(config.queryOperatorIgnore, key): the whole key is an operator
IsOperatorKey(k) == Len(k) = 1 /\ k[1] \in queryOperatorIgnore

-----------------------------------------------------------------------------
(* Strings *)

\* the characters escapeRegExp puts a backslash in front of
RegExpSpecials ==
    { "-", "[", "]", "/", "{", "}", "(", ")", "*", "+", "?", ".", "\\", "^",
      "$", "|" }

RECURSIVE escapeRegExp(_)
escapeRegExp(s) ==
    IF s = <<>> THEN <<>>
    ELSE (IF Head(s) \in RegExpSpecials THEN <<"\\", Head(s)>> ELSE <<Head(s)>>)
         \o escapeRegExp(Tail(s))

\* String.prototype.split(sep) for a one-character separator
RECURSIVE SplitOn(_, _, _)
SplitOn(s, sep, cur) ==
    IF s = <<>> THEN <<cur>>
    ELSE IF Head(s) = sep THEN <<cur>> \o SplitOn(Tail(s), sep, <<>>)
    ELSE SplitOn(Tail(s), sep, Append(cur, Head(s)))

RECURSIVE Digits(_)
Digits(n) ==
    LET d == <<"0", "1", "2", "3", "4", "5", "6", "7", "8", "9">>
    IN  IF n < 10 THEN <<d[n + 1]>> ELSE Digits(n \div 10) \o <<d[(n % 10) + 1]>>

\* String(value), as new RegExp(value) and Array.prototype.join apply it
RECURSIVE ToStr(_)
RECURSIVE JoinComma(_)
ToStr(x) ==
    CASE x.t = "str" -> x.v
      [] x.t = "num" -> (IF x.v < 0 THEN <<"-">> \o Digits(-x.v) ELSE Digits(x.v))
      [] x.t = "null" -> <<"n", "u", "l", "l">>
      [] x.t = "arr" -> JoinComma(x.v)
      [] x.t = "re" -> <<"/">> \o x.v[1] \o <<"/">> \o x.v[2]
      [] OTHER -> <<"[", "o", "b", "j", "e", "c", "t", " ", "O", "b", "j", "e",
                    "c", "t", "]">>
JoinComma(xs) ==
    IF xs = <<>> THEN <<>>
    ELSE (IF Head(xs).t \in {"null", "undef"} THEN <<>> ELSE ToStr(Head(xs)))
         \o (IF Len(xs) > 1 THEN <<",">> \o JoinComma(Tail(xs)) ELSE <<>>)

\* new RegExp(pattern): whether the pattern parses.  Groups must balance, a
\* quantifier needs something to repeat, a backslash needs a character.
RECURSIVE PatternParses(_, _, _)
PatternParses(s, depth, canRepeat) ==
    IF s = <<>> THEN depth = 0
    ELSE CASE Head(s) = "\\" ->
                Len(s) > 1 /\ PatternParses(Tail(Tail(s)), depth, TRUE)
           [] Head(s) = "(" -> PatternParses(Tail(s), depth + 1, FALSE)
           [] Head(s) = ")" ->
                depth > 0 /\ PatternParses(Tail(s), depth - 1, TRUE)
           [] Head(s) \in {"*", "+", "?"} ->
                canRepeat /\ PatternParses(Tail(s), depth, FALSE)
           [] Head(s) = "|" -> PatternParses(Tail(s), depth, FALSE)
           [] OTHER -> PatternParses(Tail(s), depth, TRUE)

\* new RegExp(pattern, flags): the flags are distinct letters of "gim"
FlagsParse(f) ==
    /\ \A i \in 1..Len(f) : f[i] \in {"g", "i", "m"}
    /\ \A i, j \in 1..Len(f) : f[i] = f[j] => i = j

NewRegExp(p, f) ==
    IF PatternParses(p, 0, FALSE) /\ FlagsParse(f)
    THEN Ok(Re(p, f))
    ELSE Err(Undefined, "SyntaxError")

-----------------------------------------------------------------------------
(* Numbers: the coercions of the JavaScript operators the code applies *)

NaN == [t |-> "nan", v |-> 0]

DecimalDigits == {"0", "1", "2", "3", "4", "5", "6", "7", "8", "9"}

DigitValue(c) == CHOOSE n \in 0..9 : Digits(n) = <<c>>

\* the number written by the longest prefix of digits of s, and its length
RECURSIVE DigitPrefix(_, _, _)
DigitPrefix(s, n, len) ==
    IF s # <<>> /\ Head(s) \in DecimalDigits
    THEN DigitPrefix(Tail(s), 10 * n + DigitValue(Head(s)), len + 1)
    ELSE [n |-> n, len |-> len]

\* parseInt(value, 10): sign and leading digits of String(value)
parseInt(x) ==
    IF x.t \notin {"str", "num", "arr"} THEN NaN
    ELSE LET s == ToStr(x)
             neg == s # <<>> /\ Head(s) = "-"
             body == IF neg THEN Tail(s) ELSE s
             pre == DigitPrefix(body, 0, 0)
         IN  IF pre.len = 0 THEN NaN
             ELSE Num(IF neg THEN -pre.n ELSE pre.n)

\* ToNumber: the whole string must be a numeral; '' is 0
ToNumber(x) ==
    CASE x.t = "num" -> x
      [] x.t = "null" -> Num(0)
      [] x.t \in {"str", "arr"} ->
            LET s == ToStr(x)
                neg == s # <<>> /\ Head(s) = "-"
                body == IF neg THEN Tail(s) ELSE s
                pre == DigitPrefix(body, 0, 0)
            IN  IF s = <<>> THEN Num(0)
                ELSE IF pre.len = 0 \/ pre.len # Len(body) THEN NaN
                ELSE Num(IF neg THEN -pre.n ELSE pre.n)
      [] OTHER -> NaN

\* ToBoolean
Truthy(x) ==
    CASE x.t = "str" -> x.v # <<>>
      [] x.t = "num" -> x.v # 0
      [] x.t = "bool" -> x.v
      [] x.t \in {"nan", "null", "undef"} -> FALSE
      [] OTHER -> TRUE

\* a || b
OrElse(a, b) == IF Truthy(a) THEN a ELSE b

\* a > b, a >= b, a - b, a * b on numbers: NaN compares false and propagates
Gt(a, b) == a.t = "num" /\ b.t = "num" /\ a.v > b.v
Ge(a, b) == a.t = "num" /\ b.t = "num" /\ a.v >= b.v
Sub(a, b) == IF a.t = "num" /\ b.t = "num" THEN Num(a.v - b.v) ELSE NaN
Mul(a, b) == IF a.t = "num" /\ b.t = "num" THEN Num(a.v * b.v) ELSE NaN

-----------------------------------------------------------------------------
(* config.processModifier *)

Directive(re) == Map(<<Pair(<<"$regex">>, re)>>)

processModifierContains(value) ==
    IF value.t # "str"
    THEN Err(Undefined, "TypeError")          \* str.replace is not a function
    ELSE LET re == NewRegExp(escapeRegExp(value.v), <<>>)
         IN  IF re.err # "none" THEN re ELSE Ok(Directive(re.val))

processModifierRegex(value) ==
    IF value.t \notin {"str", "arr"}
    THEN Err(Undefined, "TypeError")          \* value.indexOf is not a function
    ELSE IF value.t = "arr"
    THEN IF value.v # <<>> /\ value.v[1] = Str(<<"/">>)
         THEN Err(Undefined, "TypeError")     \* value.split is not a function
         ELSE LET re == NewRegExp(ToStr(value), <<>>)
              IN  IF re.err # "none" THEN re ELSE Ok(Directive(re.val))
    ELSE LET slash == value.v # <<>> /\ value.v[1] = "/"
             parts == SplitOn(value.v, "/", <<>>)
             flags == IF slash /\ Len(parts) >= 3 THEN parts[3] ELSE <<>>
             pattern == IF slash THEN parts[2] ELSE value.v
             re == NewRegExp(pattern, flags)
         IN  IF re.err # "none" THEN re ELSE Ok(Directive(re.val))

processModifier(modifier, value) ==
    CASE modifier = "contains" -> processModifierContains(value)
      [] modifier = "regex" -> processModifierRegex(value)
      [] OTHER -> Ok(value)

-----------------------------------------------------------------------------
(* config.buildQueryFromParams *)

\* as Field, by a compiler that loses the context of a nested mapping
FieldKeyOnly(context, key) == key

\* field = (context) ? [context, key].join('.') : key; '' is falsy
Field(context, key) ==
    IF context = <<>> \/ context = <<"">> THEN key ELSE context \o key

\* modifierKey = key.split('.'), modifier = modifierKey.pop()
ModifierOf(key) == key[Len(key)]

\* key = modifierKey.join('.'); joining no segment gives ''
StripModifier(key) ==
    IF Len(key) = 1 THEN <<"">> ELSE SubSeq(key, 1, Len(key) - 1)

\* outcome of a compile: val is the object compiled in place (as the
\* mutations left it when the compile threw), shared are the values the
\* properties held when the compile started, as the compile leaves them: a
\* nested object is mutated through whichever mapping refers to it
Done(x, e, sh) == [val |-> x, err |-> e, shared |-> sh]

\* params[key] = value stores a new object over a property: the object the
\* property held at the start is no longer reached through it
Detach(sh, k) ==
    [i \in 1..Len(sh) |-> IF sh[i].k = k THEN [sh[i] EXCEPT !.live = FALSE]
                          ELSE sh[i]]

\* the object a property held at the start has been compiled in place
Mutate(sh, k, x) ==
    [i \in 1..Len(sh) |-> IF sh[i].k = k /\ sh[i].live
                          THEN [sh[i] EXCEPT !.val = x]
                          ELSE sh[i]]

SharedOf(ps) ==
    [i \in 1..Len(ps) |-> [k |-> ps[i].k, val |-> ps[i].val, live |-> TRUE]]

RECURSIVE buildQueryFromParams(_, _, _)
RECURSIVE EachProperty(_, _, _, _, _)
RECURSIVE EachElement(_, _, _, _)

\* the _.each callback over a mapping, for the properties still to visit
EachProperty(ps, sh, keys, whitelist, context) ==
    IF keys = <<>> THEN Done(Map(ps), "none", sh)
    ELSE IF ~HasKey(ps, Head(keys))
    THEN EachProperty(ps, sh, Tail(keys), whitelist, context)
    ELSE
    LET key0 == Head(keys)
        value0 == Get(ps, key0)
        field == Field(context, key0)
        isMod == ModifierOf(key0) \in fieldModifiers
        pm == processModifier(ModifierOf(key0), value0)
        ps1 == IF isMod THEN Delete(ps, key0) ELSE ps
    IN  IF isMod /\ pm.err # "none" THEN Done(Map(ps1), pm.err, sh)
        ELSE
        LET value == IF isMod THEN pm.val ELSE value0
            key == IF isMod THEN StripModifier(key0) ELSE key0
            ps2 == IF isMod THEN Put(ps1, key, value) ELSE ps1
            sh2 == IF isMod THEN Detach(sh, key) ELSE sh
        IN  IF TypeofObject(value)
            THEN LET sub == buildQueryFromParams(value, whitelist,
                               IF IsOperatorKey(key) THEN context ELSE field)
                     ps3 == Put(ps2, key, sub.val)
                     sh3 == Mutate(sh2, key, sub.val)
                 IN  IF sub.err # "none"
                     THEN Done(Map(ps3), sub.err, sh3)
                     ELSE EachProperty(ps3, sh3, Tail(keys), whitelist, context)
            ELSE IF field \notin whitelist /\ ~IsOperatorKey(key)
            THEN EachProperty(Delete(ps2, key), sh2, Tail(keys), whitelist,
                              context)
            ELSE EachProperty(ps2, sh2, Tail(keys), whitelist, context)

\* the _.each callback over an array: the key is a Number, so the element is
\* compiled under the same context and stored back unconditionally
EachElement(xs, i, whitelist, context) ==
    IF i > Len(xs) THEN Done(Arr(xs), "none", <<>>)
    ELSE LET sub == buildQueryFromParams(xs[i], whitelist, context)
             xs1 == [xs EXCEPT ![i] = sub.val]
         IN  IF sub.err # "none" THEN Done(Arr(xs1), sub.err, <<>>)
             ELSE EachElement(xs1, i + 1, whitelist, context)

buildQueryFromParams(p, whitelist, context) ==
    IF ~IsObject(p) THEN Done(p, "none", <<>>)
    ELSE CASE p.t = "map" ->
                EachProperty(p.v, SharedOf(p.v), KeysOf(p.v), whitelist, context)
           [] p.t = "arr" -> EachElement(p.v, 1, whitelist, context)
           [] OTHER -> Done(p, "none", <<>>)

-----------------------------------------------------------------------------
(* The compiler applied to bounded parameter sets *)

\* nesting depth of the generated parameter values
MaxDepth == 2

NotYet == Done(Undefined, "pending", <<>>)

Leaves ==
    { Str(<<"x">>), Str(<<"(">>), Str(<<"/", "x", "/", "i">>), Num(5), Null }

ParamKeys ==
    { <<"email">>, <<"name">>, <<"first">>, <<"bogus">>, <<"$gt">>,
      <<"email", "contains">>, <<"bogus", "regex">>,
      <<"email", "contains", "contains">> }

\* whitelist of the sample schema, and the same one without email
WhitelistFull == { <<"name", "first">>, <<"name", "last">>, <<"email">> }
WhitelistNoEmail == { <<"name", "first">>, <<"name", "last">> }
Whitelists == { WhitelistFull, WhitelistNoEmail }

RECURSIVE Vals(_)
Vals(d) ==
    IF d = 0 THEN Leaves
    ELSE LET sub == Vals(d - 1)
         IN  Leaves \cup { Map(<<Pair(k, x)>>) : k \in ParamKeys, x \in sub }
                    \cup { Arr(<<x>>) : x \in sub }

\* two sibling parameters, in either property order
SiblingParams ==
    { Map(<<Pair(kk[1], x1), Pair(kk[2], x2)>>) :
        kk \in { q \in ParamKeys \X ParamKeys : q[1] # q[2] },
        x1 \in Leaves, x2 \in Leaves }

ExampleParams ==
    Map(<<Pair(<<"name">>, Map(<<Pair(<<"first">>, Str(<<"J", "o">>)),
                                 Pair(<<"bogus">>, Str(<<"x">>))>>)),
          Pair(<<"other">>, Str(<<"y">>))>>)

ExampleCompiled ==
    Map(<<Pair(<<"name">>, Map(<<Pair(<<"first">>, Str(<<"J", "o">>))>>))>>)

ParamSets ==
    { Map(<<Pair(k, x)>>) : k \in ParamKeys, x \in Vals(MaxDepth) }
        \cup SiblingParams \cup { ExampleParams }

\* the value of a variable that a scenario does not use
Unused == Undefined

InitCompile ==
    /\ pc = "start"
    /\ params \in ParamSets
    /\ fields \in Whitelists
    /\ compiled = NotYet
    /\ recompiled = NotYet
    /\ bound = <<>>
    /\ store = Unused
    /\ promise = Unused
    /\ trail = <<>>
    /\ config = Unused
    /\ args = Unused
    /\ issued = <<>>
    /\ meta = Unused
    /\ request = Unused
    /\ owned = Unused
    /\ sent = <<>>

\* query = config.buildQueryFromParams(params, fields)
Compile ==
    /\ pc = "start"
    /\ compiled' = buildQueryFromParams(params, fields, <<>>)
    /\ pc' = "compiled"
    /\ UNCHANGED <<params, fields, recompiled, crudVars, handlerVars, serveVars>>

\* the compiled output is compiled once more with the same whitelist
Recompile ==
    /\ pc = "compiled"
    /\ compiled.err = "none"
    /\ recompiled' = buildQueryFromParams(compiled.val, fields, <<>>)
    /\ pc' = "recompiled"
    /\ UNCHANGED <<params, fields, compiled, crudVars, handlerVars, serveVars>>

NextCompile == Compile \/ Recompile

SpecCompile == InitCompile /\ [][NextCompile]_vars

-----------------------------------------------------------------------------
(* config.calculateDocumentOffset and crud.find *)

calculateDocumentOffset(pageNum, resultsPerPage) ==
    IF Ge(ToNumber(pageNum), Num(0))
    THEN Mul(Sub(ToNumber(pageNum), Num(1)), ToNumber(resultsPerPage))
    ELSE Num(0)

\* A sort string 'field:direction,field:direction' is held as the sequence of
\* its tokens, each the pair of the two parts that split(':') gives.
SortSpec(tokens) == [t |-> "sortspec", v |-> tokens]

\* sortParams.forEach: sort[param[0]] = param[1]
RECURSIVE SortObject(_, _)
SortObject(tokens, ps) ==
    IF tokens = <<>> THEN ps
    ELSE SortObject(Tail(tokens), Put(ps, Head(tokens).k, Head(tokens).val))

\* the sort handed to the query: the configured one, or the compiled tokens;
\* a sort that is not a string has no split method
SortOf(cfg, whitelist, sort) ==
    IF ~Truthy(sort) THEN Done(cfg.querySort, "none", <<>>)
    ELSE IF sort.t # "sortspec" THEN Done(Undefined, "TypeError", <<>>)
    ELSE buildQueryFromParams(Map(SortObject(sort.v, <<>>)), whitelist, <<>>)

\* crud.find up to exec: the call it makes to the store, or the error it
\* throws before making one
crudFind(cfg, whitelist, query, limit, sort, projection, pageNum) ==
    LET Exec(limit1, sort1) ==
            IF sort1.err # "none" THEN [err |-> sort1.err, call |-> Undefined]
            ELSE [err |-> "none",
                  call |-> [op |-> "find", query |-> query,
                            projection |-> OrElse(projection, Map(<<>>)),
                            skip |-> OrElse(calculateDocumentOffset(pageNum,
                                                                    limit1),
                                            cfg.queryOffset),
                            limit |-> limit1, sort |-> sort1.val]]
    IN  Exec(OrElse(limit, cfg.queryLimit), SortOf(cfg, whitelist, sort))

-----------------------------------------------------------------------------
(* crud.find applied to bounded page numbers and limits *)

\* largest page number requested
MaxPage == 3

LimitChoices == {0, 1, 3, 10}

Numeral(n) == IF n < 0 THEN <<"-">> \o Digits(-n) ELSE Digits(n)

\* a request parameter as the query string gives it (a string) or as a
\* socket payload gives it (a number), or absent
PageValues ==
    {Undefined, Str(<<"x">>)}
        \cup { Str(Numeral(n)) : n \in -1..MaxPage }
        \cup { Num(n) : n \in -1..MaxPage }

LimitValues ==
    {Undefined} \cup { Str(Numeral(n)) : n \in LimitChoices }
                \cup { Num(n) : n \in LimitChoices }

SortValues ==
    { Undefined,
      SortSpec(<<Pair(<<"email">>, Str(<<"1">>)),
                 Pair(<<"bogus">>, Str(<<"-", "1">>))>>),
      Map(<<Pair(<<"email">>, Num(1))>>) }

Configs ==
    { [queryLimit |-> Num(l), queryOffset |-> Num(o), querySort |-> Map(<<>>)] :
        l \in {0, 10}, o \in {0, 5} }

FindArgs ==
    [query : {Map(<<>>)}, limit : LimitValues, sort : SortValues,
     projection : {Undefined}, pageNum : PageValues]

InitFind ==
    /\ pc = "start"
    /\ config \in Configs
    /\ args \in FindArgs
    /\ fields = WhitelistFull
    /\ issued = <<>>
    /\ params = Unused
    /\ compiled = NotYet
    /\ recompiled = NotYet
    /\ bound = <<>>
    /\ store = Unused
    /\ promise = Unused
    /\ trail = <<>>
    /\ meta = Unused
    /\ request = Unused
    /\ owned = Unused
    /\ sent = <<>>

\* crud.find(query, limit, sort, projection, pageNum)
CrudFind ==
    /\ pc = "start"
    /\ LET f == crudFind(config, fields, args.query, args.limit, args.sort,
                         args.projection, args.pageNum)
       IN  IF f.err = "none"
           THEN issued' = Append(issued, f.call) /\ pc' = "issued"
           ELSE issued' = issued /\ pc' = "threw"
    /\ UNCHANGED <<compVars, config, args, meta, handlerVars, serveVars>>

NextFind == CrudFind

SpecFind == InitFind /\ [][NextFind]_vars

\* C10: the offset passed to skip is (page - 1) * limit when page >= 1, the
\* configured default offset when page is absent or below 1, and never
\* negative (limit being the limit in effect, a number).
C10_OffsetFromPage ==
    (pc = "issued" /\ ToNumber(issued[1].limit).t = "num"
                   /\ ToNumber(issued[1].limit).v >= 0)
        => LET page == ToNumber(args.pageNum)
               limit == ToNumber(issued[1].limit).v
               skip == issued[1].skip
           IN  /\ (page.t = "num" /\ page.v >= 1
                     => skip = Num((page.v - 1) * limit))
               /\ (args.pageNum = Undefined \/ (page.t = "num" /\ page.v < 1)
                     => skip = config.queryOffset)
               /\ skip.t = "num" /\ skip.v >= 0

-----------------------------------------------------------------------------
(* crud.count and crud.buildResultsMeta *)

\* querystring.stringify(obj): one name=value per property, one per element of
\* an array; a string is kept, a number written out, anything else gives ''
QsValue(x) ==
    CASE x.t = "str" -> x
      [] x.t = "num" -> Str(ToStr(x))
      [] x.t = "bool" -> Str(IF x.v THEN <<"t", "r", "u", "e">>
                                     ELSE <<"f", "a", "l", "s", "e">>)
      [] OTHER -> Str(<<>>)

RECURSIVE Stringify(_)
Stringify(ps) ==
    IF ps = <<>> THEN <<>>
    ELSE (IF Head(ps).val.t = "arr"
          THEN [i \in 1..Len(Head(ps).val.v) |->
                    Pair(Head(ps).k, QsValue(Head(ps).val.v[i]))]
          ELSE <<Pair(Head(ps).k, QsValue(Head(ps).val))>>)
         \o Stringify(Tail(ps))

\* path + '?' + querystring.stringify(obj)
Url(path, ps) == [t |-> "url", v |-> <<path.v, Stringify(ps)>>]

\* (path) ? '' : {}
DefaultLink(path) == IF Truthy(path) THEN Str(<<>>) ELSE Map(<<>>)

\* var link = _.extend({}, params); link.page = page;
\* (path) ? path + '?' + querystring.stringify(link) : link
PageLink(path, p, page) ==
    LET link == Put(p.v, <<"page">>, page)
    IN  IF Truthy(path) THEN Url(path, link) ELSE Map(link)

MetaLimit(cfg, p) == parseInt(OrElse(Get(p.v, <<"limit">>), cfg.queryLimit))
MetaOffset(cfg, p) == parseInt(OrElse(Get(p.v, <<"offset">>), cfg.queryOffset))
MetaPage(p) == parseInt(OrElse(Get(p.v, <<"page">>), Num(1)))

\* buildResultsMeta up to crud.count: the meta with its first and prev links
MetaBeforeCount(cfg, path, p) ==
    LET page == MetaPage(p)
        dflt == DefaultLink(path)
    IN  [documents |-> Num(0),
         pages |-> Num(0),
         limit |-> MetaLimit(cfg, p),
         offset |-> MetaOffset(cfg, p),
         links |-> [first |-> PageLink(path, p, Num(1)),
                    prev |-> IF Gt(page, Num(1))
                             THEN PageLink(path, p, Sub(page, Num(1)))
                             ELSE dflt,
                    next |-> dflt,
                    last |-> dflt]]

\* as PageCount, by a builder that rounds the quotient down
PageCountFloor(count, limit) ==
    IF Truthy(count) /\ Gt(limit, Num(0))
    THEN Num(count.v \div limit.v)
    ELSE Num(1)

\* (count && limit > 0) ? Math.ceil(count / limit) : 1
PageCount(count, limit) ==
    IF Truthy(count) /\ Gt(limit, Num(0))
    THEN Num((count.v + limit.v - 1) \div limit.v)
    ELSE Num(1)

\* as HasNext, by a builder that offers a next page after a full last page
HasNextInclusive(count, page, limit) ==
    Gt(limit, Num(0)) /\ Ge(count, Mul(page, limit))

\* limit > 0 && count > (page * limit)
HasNext(count, page, limit) ==
    Gt(limit, Num(0)) /\ Gt(count, Mul(page, limit))

\* page + 1
Add(a, b) == IF a.t = "num" /\ b.t = "num" THEN Num(a.v + b.v) ELSE NaN

\* onFulfilled(count)
MetaOnFulfilled(m, path, p, count) ==
    LET page == MetaPage(p)
        pages == PageCount(count, m.limit)
    IN  [state |-> "fulfilled",
         value |-> [m EXCEPT
            !.documents = count,
            !.pages = pages,
            !.links = [@ EXCEPT
                !.next = IF HasNext(count, page, m.limit)
                         THEN PageLink(path, p, Add(page, Num(1)))
                         ELSE @,
                !.last = PageLink(path, p, pages)]]]

\* as MetaOnRejected, by a builder that passes the failure of the count on
MetaOnRejectedPropagates(m, error) ==
    [state |-> "rejected", value |-> error]

\* onRejected(error): intentional to treat as a resolve
MetaOnRejected(m, error) ==
    [state |-> "fulfilled", value |-> [m EXCEPT !.documents = error]]

\* crud.count(query): query = query || {}
crudCount(query) == [op |-> "count", query |-> OrElse(query, Map(<<>>))]

-----------------------------------------------------------------------------
(* crud.buildResultsMeta applied to bounded request parameters and counts *)

\* largest number of documents the store counts
MaxCount == 25

StoreError == [t |-> "error", v |-> <<"c", "o", "u", "n", "t">>]

RoutePath == Str(<<"/", "a", "p", "i", "/", "s", "a", "m", "p", "l", "e", "s">>)

\* the properties of a mapping that are given (not undefined)
Given(ps) == SelectSeq(ps, LAMBDA q : q.val # Undefined)

MetaParams ==
    { Map(Given(<<Pair(<<"email">>, e), Pair(<<"limit">>, l),
                  Pair(<<"page">>, g)>>)) :
        e \in {Undefined, Str(<<"x">>)}, l \in LimitValues, g \in PageValues }

MetaArgs ==
    [path : {RoutePath, Bool(FALSE)}, params : MetaParams, query : {Map(<<>>)}]

InitMeta ==
    /\ pc = "start"
    /\ config \in Configs
    /\ args \in MetaArgs
    /\ fields = WhitelistFull
    /\ issued = <<>>
    /\ meta = Unused
    /\ params = Unused
    /\ compiled = NotYet
    /\ recompiled = NotYet
    /\ bound = <<>>
    /\ store = Unused
    /\ promise = Unused
    /\ trail = <<>>
    /\ request = Unused
    /\ owned = Unused
    /\ sent = <<>>

\* crud.buildResultsMeta(path, params, query) up to crud.count(query).then
BuildResultsMeta ==
    /\ pc = "start"
    /\ meta' = [state |-> "pending",
                value |-> MetaBeforeCount(config, args.path, args.params)]
    /\ issued' = Append(issued, crudCount(args.query))
    /\ pc' = "counting"
    /\ UNCHANGED <<compVars, config, args, handlerVars, serveVars>>

\* the store calls back with a count
CountFulfilled ==
    /\ pc = "counting"
    /\ \E count \in 0..MaxCount :
          meta' = MetaOnFulfilled(meta.value, args.path, args.params, Num(count))
    /\ pc' = "resolved"
    /\ UNCHANGED <<compVars, config, args, issued, handlerVars, serveVars>>

\* the store calls back with an error
CountRejected ==
    /\ pc = "counting"
    /\ meta' = MetaOnRejected(meta.value, StoreError)
    /\ pc' = "failed"
    /\ UNCHANGED <<compVars, config, args, issued, handlerVars, serveVars>>

NextMeta == BuildResultsMeta \/ CountFulfilled \/ CountRejected

SpecMeta == InitMeta /\ [][NextMeta]_vars

-----------------------------------------------------------------------------
(* The handlers of serveRoutes and serveSockets, up to the store call *)

\* _.extend(destination, source): the properties of source are stored on
\* destination, which is returned; _.extend({}, source) is a shallow copy
RECURSIVE Extend(_, _)
Extend(dst, src) ==
    IF src = <<>> THEN dst
    ELSE Extend(Put(dst, Head(src).k, Head(src).val), Tail(src))

\* The mapping ps of a caller after a compile of a mapping that shared its
\* property values: its own properties are as they were, the nested objects
\* they refer to are as the compile left them.
SharedView(ps, sh) ==
    [i \in 1..Len(ps) |->
        IF \E j \in 1..Len(sh) : sh[j].k = ps[i].k
        THEN Pair(ps[i].k, sh[CHOOSE j \in 1..Len(sh) : sh[j].k = ps[i].k].val)
        ELSE ps[i]]

\* what a handler has done when it returns: the transport's objects, the
\* store calls made, the responses sent, and whether it threw
Handled(q, b, pl, calls, out, err) ==
    [owned |-> [query |-> q, body |-> b, payload |-> pl],
     calls |-> calls, sent |-> out, err |-> err]

Response(code, body) == [code |-> code, body |-> body]

\* an error object and its message
ErrorOf(message) == [t |-> "error", v |-> message]

\* as serveError, by a handler that blames the request for the failure
serveErrorAsBadRequest(error) ==
    Response(400, [message |-> IF error.t = "error" /\ error.v # ""
                               THEN error.v ELSE "Unknown error."])

\* serveError: error = error || {}; 500 with error.message || 'Unknown error.'
serveError(error) ==
    Response(500, [message |-> IF error.t = "error" /\ error.v # ""
                               THEN error.v ELSE "Unknown error."])

\* createDocument, deleteDocuments: params = _.extend(req.query, req.body) is
\* req.query itself, compiled in place
MergedInPlace(req, whitelist) ==
    buildQueryFromParams(Map(Extend(req.query.v, req.body.v)), whitelist, <<>>)

createDocument(req, whitelist) ==
    LET Save(r) ==
            Handled(r.val, Map(SharedView(req.body.v, r.shared)), req.payload,
                    IF r.err = "none"
                    THEN <<[op |-> "create", document |-> r.val]>> ELSE <<>>,
                    <<>>, r.err)
    IN  Save(MergedInPlace(req, whitelist))

deleteDocuments(req, whitelist) ==
    LET Remove(r) ==
            Handled(r.val, Map(SharedView(req.body.v, r.shared)), req.payload,
                    IF r.err = "none"
                    THEN <<[op |-> "remove", query |-> r.val]>> ELSE <<>>,
                    <<>>, r.err)
    IN  Remove(MergedInPlace(req, whitelist))

\* as updateDocumentById, by a handler that leaves _id and id in the document
updateDocumentByIdKeepingIds(req, whitelist) ==
    LET Update(r, b1) ==
            IF r.err # "none"
            THEN Handled(r.val, b1, req.payload, <<>>, <<>>, r.err)
            ELSE Handled(r.val, b1, req.payload,
                         <<[op |-> "update",
                            query |-> Map(<<Pair(<<"_id">>, req.id)>>),
                            document |-> r.val]>>,
                         <<>>, "none")
        Compiled(r) == Update(r, Map(SharedView(req.body.v, r.shared)))
    IN  Compiled(MergedInPlace(req, whitelist))

\* updateDocumentById: the compiled object loses _id and id
updateDocumentById(req, whitelist) ==
    LET Update(r, b1, document) ==
            IF r.err # "none"
            THEN Handled(r.val, b1, req.payload, <<>>, <<>>, r.err)
            ELSE Handled(document, b1, req.payload,
                         <<[op |-> "update",
                            query |-> Map(<<Pair(<<"_id">>, req.id)>>),
                            document |-> document]>>,
                         <<>>, "none")
        Compiled(r) ==
            Update(r, Map(SharedView(req.body.v, r.shared)),
                   Map(Delete(Delete(r.val.v, <<"_id">>), <<"id">>)))
    IN  Compiled(MergedInPlace(req, whitelist))

\* updateDocuments: the query string and the body are compiled from shallow
\* copies
updateDocuments(req, whitelist) ==
    LET Update(rq, rb, q1, b1) ==
            IF rq.err # "none"
            THEN Handled(q1, req.body, req.payload, <<>>, <<>>, rq.err)
            ELSE IF rb.err # "none"
            THEN Handled(q1, b1, req.payload, <<>>, <<>>, rb.err)
            ELSE Handled(q1, b1, req.payload,
                         <<[op |-> "update", query |-> rq.val,
                            document |-> rb.val]>>,
                         <<>>, "none")
        Compiled(rq, rb) ==
            Update(rq, rb, Map(SharedView(req.query.v, rq.shared)),
                   Map(SharedView(req.body.v, rb.shared)))
    IN  Compiled(buildQueryFromParams(Map(Extend(<<>>, req.query.v)),
                                      whitelist, <<>>),
                 buildQueryFromParams(Map(Extend(<<>>, req.body.v)),
                                      whitelist, <<>>))

\* as QueryAfterParse, by a handler that gives up the parameters of a
\* request whose _query does not parse
QueryAfterParseOrNothing(raw, query) ==
    IF Truthy(raw) /\ raw.t = "json"
    THEN Delete(Extend(raw.v.v, query), <<"_query">>)
    ELSE IF Truthy(raw) THEN <<>> ELSE query

\* findDocuments: req.query after the try block: _.extend(rawQuery,
\* req.query) without _query when JSON.parse succeeded, req.query as it was
\* when it threw or when there is no _query
QueryAfterParse(raw, query) ==
    IF Truthy(raw) /\ raw.t = "json"
    THEN Delete(Extend(raw.v.v, query), <<"_query">>)
    ELSE query

\* findDocuments of serveRoutes: a _query parameter is parsed as JSON and
\* merged under the request parameters; when it does not parse, a 500 is
\* sent and the handler goes on
restFindDocuments(cfg, req, whitelist) ==
    LET Find(r, q1, out, f) ==
            IF r.err # "none"
            THEN Handled(Map(q1), req.body, req.payload, <<>>, out, r.err)
            ELSE IF f.err # "none"
            THEN Handled(Map(q1), req.body, req.payload, <<>>, out, f.err)
            ELSE Handled(Map(q1), req.body, req.payload, <<f.call>>, out,
                         "none")
        Shared(r, q1, out) ==
            Find(r, q1, out,
                 crudFind(cfg, whitelist, r.val, Get(q1, <<"limit">>),
                          Get(q1, <<"sort">>), Map(<<>>), Get(q1, <<"page">>)))
        Compiled(q0, out, r) == Shared(r, SharedView(q0, r.shared), out)
        Merged(q0, out) ==
            Compiled(q0, out,
                     buildQueryFromParams(Map(Extend(<<>>, q0)), whitelist,
                                          <<>>))
        Parsed(raw) ==
            Merged(QueryAfterParse(raw, req.query.v),
                   IF Truthy(raw) /\ raw.t # "json"
                   THEN <<serveError(ErrorOf(
                              "Unable to parese query string as JSON"))>>
                   ELSE <<>>)
    IN  Parsed(Get(req.query.v, <<"_query">>))

\* saveDocument of serveSockets: the payload itself is compiled
socketSaveDocument(req, whitelist) ==
    LET Save(r) ==
            Handled(req.query, req.body, r.val,
                    IF r.err = "none"
                    THEN <<[op |-> "create", document |-> r.val]>> ELSE <<>>,
                    <<>>, r.err)
    IN  Save(buildQueryFromParams(req.payload, whitelist, <<>>))

\* var id = params.id || params._id
IdOf(ps) == OrElse(Get(ps, <<"id">>), Get(ps, <<"_id">>))

\* if (id) { query._id = id; }
WithId(query, id) ==
    IF Truthy(id) THEN Map(Put(query.v, <<"_id">>, id)) ELSE query

\* findDocuments of serveSockets
socketFindDocuments(cfg, req, whitelist) ==
    LET Find(r, p1, f) ==
            IF r.err # "none"
            THEN Handled(req.query, req.body, Map(p1), <<>>, <<>>, r.err)
            ELSE IF f.err # "none"
            THEN Handled(req.query, req.body, Map(p1), <<>>, <<>>, f.err)
            ELSE Handled(req.query, req.body, Map(p1), <<f.call>>, <<>>,
                         "none")
        Shared(r, p1) ==
            Find(r, p1,
                 crudFind(cfg, whitelist, WithId(r.val, IdOf(p1)),
                          Get(p1, <<"limit">>), Get(p1, <<"sort">>),
                          Get(p1, <<"projection">>), Get(p1, <<"page">>)))
        Compiled(r) == Shared(r, SharedView(req.payload.v, r.shared))
    IN  Compiled(buildQueryFromParams(Map(Extend(<<>>, req.payload.v)),
                                      whitelist, <<>>))

\* _.extend({}, params._query): the properties of a mapping, none otherwise
PropertiesOf(x) == IF x.t = "map" THEN x.v ELSE <<>>

\* updateDocument of serveSockets: the document is compiled from a shallow
\* copy of the payload, then the query from a shallow copy of its _query
socketUpdateDocument(req, whitelist) ==
    LET Update(r, rq, p1, p2) ==
            IF r.err # "none"
            THEN Handled(req.query, req.body, Map(p1), <<>>, <<>>, r.err)
            ELSE IF rq.err # "none"
            THEN Handled(req.query, req.body, Map(p2), <<>>, <<>>, rq.err)
            ELSE Handled(req.query, req.body, Map(p2),
                         <<[op |-> "update",
                            query |-> IF rq.val.v = <<>>
                                      THEN Map(<<Pair(<<"_id">>, IdOf(p1))>>)
                                      ELSE rq.val,
                            document |-> r.val]>>,
                         <<>>, "none")
        Queried(r, p1, sub, rq) ==
            Update(r, rq, p1,
                   IF HasKey(p1, <<"_query">>) /\ Get(p1, <<"_query">>).t = "map"
                   THEN Put(p1, <<"_query">>, Map(SharedView(sub, rq.shared)))
                   ELSE p1)
        Query(r, p1, sub) ==
            Queried(r, p1, sub,
                    buildQueryFromParams(Map(Extend(<<>>, sub)), whitelist,
                                         <<>>))
        Shared(r, p1) == Query(r, p1, PropertiesOf(Get(p1, <<"_query">>)))
        Compiled(r) == Shared(r, SharedView(req.payload.v, r.shared))
    IN  Compiled(buildQueryFromParams(Map(Extend(<<>>, req.payload.v)),
                                      whitelist, <<>>))

\* deleteDocuments of serveSockets
socketDeleteDocuments(req, whitelist) ==
    LET Remove(r, p1) ==
            Handled(req.query, req.body, Map(p1),
                    IF r.err = "none"
                    THEN <<[op |-> "remove",
                            query |-> WithId(r.val, IdOf(p1))]>>
                    ELSE <<>>,
                    <<>>, r.err)
        Compiled(r) == Remove(r, SharedView(req.payload.v, r.shared))
    IN  Compiled(buildQueryFromParams(Map(Extend(<<>>, req.payload.v)),
                                      whitelist, <<>>))

-----------------------------------------------------------------------------
(* The handlers applied to bounded requests *)

DefaultConfig ==
    [queryLimit |-> Num(0), queryOffset |-> Num(0), querySort |-> Map(<<>>)]

SX == Str(<<"x">>)

PlainParams ==
    { Map(<<>>),
      Map(<<Pair(<<"email">>, SX)>>),
      Map(<<Pair(<<"bogus">>, SX)>>),
      Map(<<Pair(<<"name">>, Map(<<Pair(<<"first">>, Str(<<"J", "o">>)),
                                   Pair(<<"bogus">>, SX)>>))>>),
      Map(<<Pair(<<"email", "contains">>, SX)>>) }

PagedParams ==
    Map(<<Pair(<<"limit">>, Str(<<"1", "0">>)), Pair(<<"page">>, Str(<<"2">>)),
          Pair(<<"email">>, SX),
          Pair(<<"sort">>, SortSpec(<<Pair(<<"email">>, Str(<<"1">>))>>))>>)

RestQueries ==
    PlainParams \cup
    { Map(<<Pair(<<"email", "contains">>, Num(5))>>),
      PagedParams,
      Map(<<Pair(<<"_query">>,
                 JsonText(Map(<<Pair(<<"email">>,
                                     Map(<<Pair(<<"$gt">>, SX)>>))>>))),
            Pair(<<"email">>, SX)>>),
      Map(<<Pair(<<"_query">>, NotJson)>>) }

RestBodies == PlainParams

SocketPayloads ==
    PlainParams \cup
    { Map(<<Pair(<<"email", "contains">>, Num(5))>>),
      PagedParams,
      Map(<<Pair(<<"_query">>, Map(<<Pair(<<"email">>, SX)>>)),
            Pair(<<"name">>, Map(<<Pair(<<"first">>, SX)>>)),
            Pair(<<"id">>, Str(<<"1">>))>>),
      Map(<<Pair(<<"_query">>,
                 Map(<<Pair(<<"email">>, Map(<<Pair(<<"$gt">>, SX)>>))>>)),
            Pair(<<"email">>, SX)>>),
      Map(<<Pair(<<"projection">>, Map(<<Pair(<<"email">>, Num(1))>>)),
            Pair(<<"id">>, Str(<<"1">>))>>) }

RestHandlers ==
    { "createDocument", "findDocuments", "updateDocuments", "deleteDocuments",
      "updateDocumentById" }

SocketHandlers ==
    { "socket.save", "socket.find", "socket.update", "socket.delete" }

Requests ==
    [handler : RestHandlers, query : RestQueries, body : RestBodies,
     payload : {Unused}, id : {Str(<<"1">>)}]
    \cup
    [handler : SocketHandlers, query : {Unused}, body : {Unused},
     payload : SocketPayloads, id : {Unused}]

InitHandlers ==
    /\ pc = "received"
    /\ request \in Requests
    /\ owned = [query |-> request.query, body |-> request.body,
                payload |-> request.payload]
    /\ sent = <<>>
    /\ issued = <<>>
    /\ config = DefaultConfig
    /\ fields = WhitelistFull
    /\ args = Unused
    /\ meta = Unused
    /\ params = Unused
    /\ compiled = NotYet
    /\ recompiled = NotYet
    /\ bound = <<>>
    /\ store = Unused
    /\ promise = Unused
    /\ trail = <<>>

\* the handler runs up to its return: the promise callbacks come later
Run(name, h) ==
    /\ pc = "received"
    /\ request.handler = name
    /\ owned' = h.owned
    /\ issued' = issued \o h.calls
    /\ sent' = sent \o h.sent
    /\ pc' = IF h.err = "none" THEN "awaiting" ELSE "threw"
    /\ UNCHANGED <<compVars, config, args, meta, request, serveVars>>

\* req.query, req.body, req.params.id, or the payload of the event
Req ==
    [query |-> owned.query, body |-> owned.body, payload |-> owned.payload,
     id |-> request.id]

RestCreate == Run("createDocument", createDocument(Req, fields))
RestFind == Run("findDocuments", restFindDocuments(config, Req, fields))
RestUpdate == Run("updateDocuments", updateDocuments(Req, fields))
RestDelete == Run("deleteDocuments", deleteDocuments(Req, fields))
RestUpdateById == Run("updateDocumentById", updateDocumentById(Req, fields))
SocketSave == Run("socket.save", socketSaveDocument(Req, fields))
SocketFind == Run("socket.find", socketFindDocuments(config, Req, fields))
SocketUpdate == Run("socket.update", socketUpdateDocument(Req, fields))
SocketDelete == Run("socket.delete", socketDeleteDocuments(Req, fields))

NextHandlers ==
    \/ RestCreate
    \/ RestFind
    \/ RestUpdate
    \/ RestDelete
    \/ RestUpdateById
    \/ SocketSave
    \/ SocketFind
    \/ SocketUpdate
    \/ SocketDelete

SpecHandlers == InitHandlers /\ [][NextHandlers]_vars

\* C6: when a handler has compiled its parameters, the transport's own
\* parameter objects (request query, request body, socket payload) hold, at
\* every depth, exactly the keys and values they were delivered with.
C6_CallerDataUnchanged ==
    pc = "awaiting"
        => /\ owned.query = request.query
           /\ owned.body = request.body
           /\ owned.payload = request.payload

-----------------------------------------------------------------------------
(* Properties of the pagination meta *)

\* the parameters a link carries: the query string of a REST link, the
\* object of a socket link
LinkParams(link) ==
    CASE link.t = "url" -> link.v[2]
      [] link.t = "map" -> link.v
      [] OTHER -> <<>>

Present(link) == link \notin {Str(<<>>), Map(<<>>)}

\* the link carries page n
CarriesPage(link, n) ==
    /\ HasKey(LinkParams(link), <<"page">>)
    /\ ToNumber(Get(LinkParams(link), <<"page">>)) = Num(n)

\* the request parameters as a link of the same transport carries them
AsLinkParams(link, p) ==
    IF link.t = "url" THEN Stringify(p.v) ELSE p.v

\* the link is the request parameters with only page set differently
DiffersOnlyInPage(link, p) ==
    /\ HasKey(LinkParams(link), <<"page">>)
    /\ Delete(LinkParams(link), <<"page">>)
         = Delete(AsLinkParams(link, p), <<"page">>)
    /\ (link.t = "url") = Truthy(args.path)

\* the least number of pages of the given size that hold count documents
LeastPages(count, limit) ==
    CHOOSE n \in 0..count : n * limit >= count /\ (n - 1) * limit < count

\* C7: after a successful count the page count is ceil(count / limit) when
\* count > 0 and limit > 0, and 1 otherwise; 25 documents at 10 per page
\* are 3 pages.
C7_PageCount ==
    pc = "resolved"
        => LET count == meta.value.documents.v
               limit == meta.value.limit
           IN  /\ meta.value.pages =
                    IF count > 0 /\ limit.t = "num" /\ limit.v > 0
                    THEN Num(LeastPages(count, limit.v))
                    ELSE Num(1)
               /\ (count = 25 /\ limit = Num(10) => meta.value.pages = Num(3))

C7_Witness ==
    /\ pc = "resolved"
    /\ meta.value.documents = Num(25)
    /\ meta.value.limit = Num(10)
    /\ meta.value.pages = Num(3)

\* what C8 says of the four links of a meta
LinksAsClaimed(m, p, count) ==
    LET page == MetaPage(p)
        l == m.links
    IN  /\ Present(l.first) /\ CarriesPage(l.first, 1)
        /\ Present(l.last) /\ CarriesPage(l.last, m.pages.v)
        /\ Present(l.prev) <=> Gt(page, Num(1))
        /\ Present(l.next) <=> (Gt(m.limit, Num(0))
                                  /\ Gt(count, Mul(page, m.limit)))
        /\ \A link \in {l.first, l.prev, l.next, l.last} :
              Present(link) => DiffersOnlyInPage(link, p)

\* C8 as stated: every meta the builder resolves to, after a count that
\* succeeded or failed, has its links as claimed.
C8_LinksInEveryMeta ==
    (pc \in {"resolved", "failed"} /\ meta.state = "fulfilled")
        => LinksAsClaimed(meta.value, args.params, meta.value.documents)

\* C8 amended: every meta resolved after a count that succeeded has first
\* with page 1, last with the page count, prev iff page > 1, next iff
\* limit > 0 and count > page * limit, each a clone of the request
\* parameters that differs only in page.
C8_LinksAfterCount ==
    pc = "resolved"
        => /\ meta.state = "fulfilled"
           /\ LinksAsClaimed(meta.value, args.params, meta.value.documents)

\* page 2 of 25 documents at 10 per page: both prev and next are present
C8_Witness ==
    /\ pc = "resolved"
    /\ meta.value.documents = Num(25)
    /\ meta.value.limit = Num(10)
    /\ MetaPage(args.params) = Num(2)
    /\ Present(meta.value.links.prev)
    /\ Present(meta.value.links.next)

\* C9 as stated: after a failed count the promise is fulfilled with the
\* error as document count, the page count and all four links at their
\* initial defaults.
C9_FailureLeavesDefaults ==
    pc = "failed"
        => /\ meta.state = "fulfilled"
           /\ meta.value.documents = StoreError
           /\ meta.value.pages = Num(0)
           /\ \A link \in {meta.value.links.first, meta.value.links.prev,
                           meta.value.links.next, meta.value.links.last} :
                 link = DefaultLink(args.path)

\* C9 amended: after a failed count the promise is fulfilled with the error
\* as document count, the page count 0 and the next and last links at their
\* defaults; first is already set, with page 1, and prev is set if and only
\* if page > 1.
C9_FailureKeepsEarlyLinks ==
    pc = "failed"
        => /\ meta.state = "fulfilled"
           /\ meta.value.documents = StoreError
           /\ meta.value.pages = Num(0)
           /\ meta.value.links.next = DefaultLink(args.path)
           /\ meta.value.links.last = DefaultLink(args.path)
           /\ Present(meta.value.links.first)
           /\ CarriesPage(meta.value.links.first, 1)
           /\ Present(meta.value.links.prev)
                <=> Gt(MetaPage(args.params), Num(1))

\* the count of a request for page 2 has failed
C9_Witness ==
    /\ pc = "failed"
    /\ meta.state = "fulfilled"
    /\ meta.value.documents = StoreError
    /\ MetaPage(args.params) = Num(2)
    /\ Present(meta.value.links.prev)

-----------------------------------------------------------------------------
(* Properties of the compiler *)

\* the dotted path of key k under the path context
Allowed(whitelist, context, k) ==
    (context \o k) \in whitelist \/ IsOperatorKey(k)

ChildContext(context, k) ==
    IF IsOperatorKey(k) THEN context ELSE context \o k

HasModifier(k) == ModifierOf(k) \in fieldModifiers

RECURSIVE OnlyAllowedKeys(_, _, _)
OnlyAllowedKeys(x, whitelist, context) ==
    CASE x.t = "map" ->
            \A i \in 1..Len(x.v) :
                /\ Allowed(whitelist, context, x.v[i].k)
                /\ OnlyAllowedKeys(x.v[i].val, whitelist,
                                   ChildContext(context, x.v[i].k))
      [] x.t = "arr" ->
            \A i \in 1..Len(x.v) : OnlyAllowedKeys(x.v[i], whitelist, context)
      [] OTHER -> TRUE

\* C1: every key of the compiled output, at every depth, is a whitelisted
\* field path (by its context-joined dotted path), an operator name or an
\* array index; a key of any other kind is not in the output, whatever its
\* value was.
C1_OnlyAllowedKeys ==
    (pc # "start" /\ compiled.err = "none")
        => OnlyAllowedKeys(compiled.val, fields, <<>>)

IsDirective(x) ==
    x.t = "map" /\ Len(x.v) = 1 /\ x.v[1].k = <<"$regex">> /\ x.v[1].val.t = "re"

\* C2: a single parameter with a modifier suffix and a string value compiles
\* to the directive under the stripped key if and only if the stripped field
\* path is whitelisted, and to the empty mapping otherwise.
C2_ModifierIffWhitelisted ==
    (/\ pc # "start"
     /\ compiled.err = "none"
     /\ Len(params.v) = 1
     /\ HasModifier(params.v[1].k)
     /\ params.v[1].val.t = "str")
        => LET k == StripModifier(params.v[1].k)
           IN  /\ (HasKey(compiled.val.v, k) /\ IsDirective(Get(compiled.val.v, k)))
                    <=> (k \in fields)
               /\ (k \notin fields => compiled.val = Map(<<>>))

\* C3: compiling the compiled output again with the same whitelist gives the
\* compiled output.
C3_Idempotent ==
    pc = "recompiled"
        => recompiled.err = "none" /\ recompiled.val = compiled.val

\* C5: the compiler returns a result for every parameter set; it never
\* raises an error.
C5_NeverThrows ==
    pc # "start" => compiled.err = "none"

\* the value found in the output at the place of property k of a mapping,
\* or of element i of an array
AtKey(out, k) == IF out.t = "map" THEN Get(out.v, k) ELSE Undefined
AtIndex(out, i) ==
    IF out.t = "arr" /\ i <= Len(out.v) THEN out.v[i] ELSE Undefined

\* C4 as stated: every scalar of the input, property or array element, is
\* found unchanged at its place in the output if and only if its path is
\* whitelisted or its key is an operator name.
RECURSIVE ScalarsKeptIffAllowed(_, _, _, _)
ScalarsKeptIffAllowed(in, out, whitelist, context) ==
    CASE in.t = "map" ->
            \A i \in 1..Len(in.v) :
                LET k == in.v[i].k
                    x == in.v[i].val
                IN  IF IsScalar(x)
                    THEN (AtKey(out, k) = x) <=> Allowed(whitelist, context, k)
                    ELSE ScalarsKeptIffAllowed(x, AtKey(out, k), whitelist,
                                               ChildContext(context, k))
      [] in.t = "arr" ->
            \A i \in 1..Len(in.v) :
                IF IsScalar(in.v[i])
                THEN (AtIndex(out, i) = in.v[i]) <=> FALSE
                ELSE ScalarsKeptIffAllowed(in.v[i], AtIndex(out, i), whitelist,
                                           context)
      [] OTHER -> TRUE

Overwritten(ps, k) ==
    \E j \in 1..Len(ps) : HasModifier(ps[j].k) /\ StripModifier(ps[j].k) = k

\* C4 amended: the rule holds of every scalar property of a mapping whose key
\* has no modifier suffix and which no sibling with a modifier suffix is
\* stored over; scalar array elements are kept unconditionally.
RECURSIVE ScalarPropertiesKeptIffAllowed(_, _, _, _)
ScalarPropertiesKeptIffAllowed(in, out, whitelist, context) ==
    CASE in.t = "map" ->
            \A i \in 1..Len(in.v) :
                LET k == in.v[i].k
                    x == in.v[i].val
                IN  IF HasModifier(k) \/ Overwritten(in.v, k) THEN TRUE
                    ELSE IF IsScalar(x)
                    THEN (AtKey(out, k) = x) <=> Allowed(whitelist, context, k)
                    ELSE ScalarPropertiesKeptIffAllowed(x, AtKey(out, k),
                             whitelist, ChildContext(context, k))
      [] in.t = "arr" ->
            \A i \in 1..Len(in.v) :
                IF IsScalar(in.v[i])
                THEN AtIndex(out, i) = in.v[i]
                ELSE ScalarPropertiesKeptIffAllowed(in.v[i], AtIndex(out, i),
                                                    whitelist, context)
      [] OTHER -> TRUE

-----------------------------------------------------------------------------
(* The routes of serveRoutes that take a path segment *)

HexDigits ==
    DecimalDigits \cup {"a", "b", "c", "d", "e", "f", "A", "B", "C", "D", "E", "F"}

\* as isValidId, by a check that accepts no segment
isValidIdNever(id) == FALSE

\* new RegExp('^[0-9a-fA-F]{24}$').test(id)
isValidId(id) ==
    /\ id.t = "str"
    /\ Len(id.v) = 24
    /\ \A i \in 1..Len(id.v) : id.v[i] \in HexDigits

\* projection[field[0]] = field[1] for 'field:value', projection[value] = 1
ProjectionEntry(token) ==
    LET field == SplitOn(token, ":", <<>>)
    IN  IF Len(field) > 1
        THEN Pair(SplitOn(field[1], ".", <<>>), Str(field[2]))
        ELSE Pair(SplitOn(token, ".", <<>>), Num(1))

RECURSIVE ProjectionOf(_, _)
ProjectionOf(tokens, ps) ==
    IF tokens = <<>> THEN ps
    ELSE LET entry == ProjectionEntry(Head(tokens))
         IN  ProjectionOf(Tail(tokens), Put(ps, entry.k, entry.val))

buildProjectionFromString(str) ==
    Map(ProjectionOf(SplitOn(str.v, ",", <<>>), <<>>))

\* a JSON numeral: digits without a leading zero, after an optional sign
JsonNumeral(s) ==
    LET body == IF s # <<>> /\ Head(s) = "-" THEN Tail(s) ELSE s
    IN  /\ body # <<>>
        /\ \A i \in 1..Len(body) : body[i] \in DecimalDigits
        /\ (Len(body) = 1 \/ body[1] # "0")

\* try { params[key] = JSON.parse(param); } catch (e) { params[key] = param; }
\* JSON.parse reads String(param)
JsonParsed(x) ==
    CASE x.t = "json" -> x.v
      [] x.t \in {"str", "arr"} /\ JsonNumeral(ToStr(x)) -> parseInt(x)
      [] x.t \in {"str", "arr"} /\ ToStr(x) = <<"n", "u", "l", "l">> -> Null
      [] x.t \in {"str", "arr"} /\ ToStr(x) = <<"t", "r", "u", "e">> ->
            Bool(TRUE)
      [] OTHER -> x

\* _.forEach(params, ...) of postAggregationQuery, on req.query itself
ParsedParams(ps) == [i \in 1..Len(ps) |-> Pair(ps[i].k, JsonParsed(ps[i].val))]

\* crud.distinct, crud.group, crud.aggregate and crud.findById, crud.update,
\* crud.remove, crud.save: the call each makes to the store
crudDistinct(select, query) ==
    [op |-> "distinct", select |-> OrElse(select, Str(<<>>)),
     query |-> OrElse(query, Map(<<>>))]
crudGroup(group) ==
    [op |-> "aggregate", pipeline |-> Map(<<Pair(<<"$group">>, group)>>)]
crudAggregate(aggregate) == [op |-> "aggregate", pipeline |-> aggregate]
crudFindById(id, projection) ==
    [op |-> "findById", id |-> id, projection |-> OrElse(projection, Map(<<>>))]
crudUpdate(query, updates) ==
    [op |-> "update", query |-> query, document |-> updates]
crudRemove(query) == [op |-> "remove", query |-> query]
crudSave(document) == [op |-> "create", document |-> document]

\* return next(): the handler has done nothing a client or the store sees
PassedOn(q, b, pl) ==
    [owned |-> [query |-> q, body |-> b, payload |-> pl],
     calls |-> <<>>, sent |-> <<>>, err |-> "next"]

Count == <<"c", "o", "u", "n", "t">>
Distinct == <<"d", "i", "s", "t", "i", "n", "c", "t">>
Group == <<"g", "r", "o", "u", "p">>
Aggregate == <<"a", "g", "g", "r", "e", "g", "a", "t", "e">>

\* the parameter an aggregation compiles, and the call it makes with it
AggregationParam(aggregation) ==
    IF aggregation = Group THEN <<"group">>
    ELSE IF aggregation = Aggregate THEN <<"aggregate">>
    ELSE <<"query">>

AggregationCall(aggregation, ps, compiledParam) ==
    CASE aggregation = Count -> crudCount(compiledParam)
      [] aggregation = Distinct ->
            crudDistinct(Get(ps, <<"select">>), compiledParam)
      [] aggregation = Group -> crudGroup(compiledParam)
      [] OTHER -> crudAggregate(compiledParam)

\* postAggregationQuery: the parameters are parsed in place on req.query,
\* then the one the aggregation takes is compiled in place
postAggregationQuery(req, whitelist) ==
    LET Called(ps, name, r) ==
            Handled(Map(IF HasKey(ps, name) THEN Put(ps, name, r.val) ELSE ps),
                    req.body, req.payload,
                    IF r.err = "none"
                    THEN <<AggregationCall(req.id.v, ps, r.val)>> ELSE <<>>,
                    <<>>, r.err)
        Compiling(ps, name) ==
            Called(ps, name,
                   buildQueryFromParams(Get(ps, name), whitelist, <<>>))
        Parsed(ps) ==
            IF req.id.v \in {Count, Distinct, Group, Aggregate}
            THEN Compiling(ps, AggregationParam(req.id.v))
            ELSE PassedOn(Map(ps), req.body, req.payload)
    IN  Parsed(ParsedParams(req.query.v))

\* req.url of a request for a path segment
SegmentUrl(req) == Str(<<"/", "a", "p", "i", "/", "s", "a", "m", "p", "l", "e",
                         "s", "/">> \o req.id.v)

\* getDocumentByFields: the list handler, reached when the segment is not an id
getDocumentByFields(cfg, req, whitelist) ==
    LET Find(r, q1, f) ==
            IF r.err # "none"
            THEN Handled(Map(q1), req.body, req.payload, <<>>, <<>>, r.err)
            ELSE IF f.err # "none"
            THEN Handled(Map(q1), req.body, req.payload, <<>>, <<>>, f.err)
            ELSE Handled(Map(q1), req.body, req.payload, <<f.call>>, <<>>,
                         "none")
        Shared(r, q1) ==
            Find(r, q1,
                 crudFind(cfg, whitelist, r.val, Get(q1, <<"limit">>),
                          Get(q1, <<"sort">>),
                          buildProjectionFromString(req.id),
                          Get(q1, <<"page">>)))
        Compiled(r) == Shared(r, SharedView(req.query.v, r.shared))
    IN  IF isValidId(req.id)
        THEN PassedOn(req.query, req.body, req.payload)
        ELSE Compiled(buildQueryFromParams(Map(Extend(<<>>, req.query.v)),
                                           whitelist, <<>>))

getDocumentById(req) ==
    Handled(req.query, req.body, req.payload,
            <<crudFindById(req.id, Undefined)>>, <<>>, "none")

getDocumentByIdWithProjection(req) ==
    Handled(req.query, req.body, req.payload,
            <<crudFindById(req.id, buildProjectionFromString(req.projection))>>,
            <<>>, "none")

deleteDocumentById(req) ==
    Handled(req.query, req.body, req.payload,
            <<crudRemove(Map(<<Pair(<<"_id">>, req.id)>>))>>, <<>>, "none")

\* as NotSupported, by a handler that tries the update before refusing
NotSupportedAfterTrying(req, message) ==
    Handled(req.query, req.body, req.payload,
            <<crudUpdate(Map(<<Pair(<<"_id">>, req.id)>>), req.body)>>,
            <<Response(405, [message |-> message])>>, "none")

\* return config.serveJson(res, 405, { message: ... })
NotSupported(req, message) ==
    Handled(req.query, req.body, req.payload, <<>>,
            <<Response(405, [message |-> message])>>, "none")

postDocumentById(req) ==
    NotSupported(req, "Posting to a resource is not supported, use PUT for updates and POST to index for creating new documents")

postDocumentByIdWithProjection(req) ==
    NotSupported(req, "Posting to a resource with projections is not supported, POST to index for creating new documents")

putDocumentByIdWithProjection(req) ==
    NotSupported(req, "Modifying a resource attribute is not supported. Try modifying the resource instead.")

deleteDocumentByIdWithProjection(req) ==
    NotSupported(req, "Deleting a resource attribute is not supported. Try deleting the resource instead.")

-----------------------------------------------------------------------------
(* Requests served: express routing, the hook, the handlers and the        *)
(* callbacks of their promises                                             *)

\* most documents of the collection that the query in hand matches
MaxDocs == 2

\* the routes of serveRoutes, in the order they are registered; a shape is
\* the route path after routePath
Route(method, shape, handler) ==
    [method |-> method, shape |-> shape, handler |-> handler]

Routes ==
    << Route("POST", "/", "createDocument"),
       Route("GET", "/", "findDocuments"),
       Route("PUT", "/", "updateDocuments"),
       Route("DELETE", "/", "deleteDocuments"),
       Route("GET", "/:segment", "postAggregationQuery"),
       Route("POST", "/:segment", "postDocumentById"),
       Route("GET", "/:segment", "getDocumentByFields"),
       Route("GET", "/:segment", "getDocumentById"),
       Route("PUT", "/:segment", "updateDocumentById"),
       Route("DELETE", "/:segment", "deleteDocumentById"),
       Route("POST", "/:id/:projection", "postDocumentByIdWithProjection"),
       Route("GET", "/:id/:projection", "getDocumentByIdWithProjection"),
       Route("PUT", "/:id/:projection", "putDocumentByIdWithProjection"),
       Route("DELETE", "/:id/:projection",
             "deleteDocumentByIdWithProjection") >>

\* the routes a request matches, in order
Matching(req) ==
    SelectSeq(Routes, LAMBDA r : r.method = req.method /\ r.shape = req.shape)

\* the handlers that have run for the request: next() was called by each
\* but the last
HandlersRun(tr) == SelectSeq(tr, LAMBDA name : name # "authenticateUser")

\* the handler express calls after the hook of the route in turn
HandlerInTurn(req, tr) ==
    IF Len(HandlersRun(tr)) < Len(Matching(req))
    THEN Matching(req)[Len(HandlersRun(tr)) + 1].handler
    ELSE "none"

\* socket.on('api.' + collection + '.' + verb, handler)
Listeners ==
    [save |-> "socket.save", find |-> "socket.find",
     update |-> "socket.update", delete |-> "socket.delete"]

\* 'api.' + sockets.collection + '.' + verb + '.' + kind
Channel(verb, kind) == <<"api", "samples", verb, kind>>

\* sockets.socket.emit(channel, body)
Emit(channel, body) == [channel |-> channel, body |-> body]

Doc(i) == Map(<<Pair(<<"_id">>, Num(i))>>)
Docs(n) == Arr([i \in 1..n |-> Doc(i)])

\* how many documents a find gives of n matching ones
Found(n, skip, limit) ==
    LET rest == IF n > skip THEN n - skip ELSE 0
        most == IF limit < 0 THEN -limit ELSE limit
    IN  IF most > 0 /\ most < rest THEN most ELSE rest

\* whether the store runs the call: a find needs a skip that is a number
\* and not negative, and a limit that is a number
Runs(call) ==
    call.op = "find"
        => /\ ToNumber(call.skip).t = "num" /\ ToNumber(call.skip).v >= 0
           /\ ToNumber(call.limit).t = "num"

\* what the store calls back with, for n documents matching
ResultOf(call, n) ==
    CASE call.op = "create" -> call.document
      [] call.op = "find" ->
            Docs(Found(n, ToNumber(call.skip).v, ToNumber(call.limit).v))
      [] call.op = "findById" -> (IF n > 0 THEN Doc(1) ELSE Null)
      [] call.op \in {"update", "remove", "count"} -> Num(n)
      [] OTHER -> Docs(n)

ServeErrors == { ErrorOf("Validation failed"), ErrorOf("") }

Pending == [state |-> "pending", value |-> Undefined]
Fulfilled(x) == [state |-> "fulfilled", value |-> x]
Rejected(e) == [state |-> "rejected", value |-> e]

\* as FoundOr404, by a handler that reports an empty result as a failure
FoundOr500(result, body, message) ==
    IF Truthy(result) THEN Response(200, body)
    ELSE Response(500, [message |-> message])

\* if (result) { serveJson(res, 200, body) } else { serveJson(res, 404, ...) }
FoundOr404(result, body, message) ==
    IF Truthy(result) THEN Response(200, body)
    ELSE Response(404, [message |-> message])

\* { count: results }, { distinct: results }, { group: results } or
\* { aggregate: results }
AggregationBody(aggregation, results) ==
    CASE aggregation = Count -> [count |-> results]
      [] aggregation = Distinct -> [distinct |-> results]
      [] aggregation = Group -> [group |-> results]
      [] OTHER -> [aggregate |-> results]

\* the onFulfilled callback of each handler but the list handlers
OnFulfilled(handler, req, result) ==
    CASE handler = "createDocument" ->
            Response(201, [message |-> "Resource created",
                           document |-> result])
      [] handler = "updateDocuments" ->
            FoundOr404(result, [message |-> "Resources updated",
                                update |-> result], "Resources not found")
      [] handler = "deleteDocuments" ->
            Response(200, [message |-> "Resources deleted",
                           removed |-> result])
      [] handler = "postAggregationQuery" ->
            Response(200, AggregationBody(req.id.v, result))
      [] handler \in {"getDocumentById", "getDocumentByIdWithProjection"} ->
            FoundOr404(result, result, "Resource not found")
      [] handler = "updateDocumentById" ->
            FoundOr404(result, [message |-> "Resources updated",
                                update |-> result], "Resource not found")
      [] handler = "deleteDocumentById" ->
            FoundOr404(result, [message |-> "Resources deleted",
                                removed |-> result], "Resource not found")
      [] handler = "socket.save" ->
            Emit(Channel("save", "response"),
                 [message |-> "Resource created", document |-> result])
      [] handler = "socket.update" ->
            Emit(Channel("update", "response"),
                 IF Truthy(result)
                 THEN [message |-> "Resources updated", update |-> result]
                 ELSE [message |-> "Resource not found"])
      [] handler = "socket.delete" ->
            Emit(Channel("update", "response"),
                 [message |-> "Resources deleted", removed |-> result])

\* the onRejected callback of each handler
OnRejected(handler, error) ==
    CASE handler = "socket.save" ->
            Emit(Channel("save", "error"), [message |-> error])
      [] handler = "socket.find" ->
            Emit(Channel("find", "error"), [message |-> error])
      [] handler = "socket.update" ->
            Emit(Channel("update", "error"), [message |-> error])
      [] handler = "socket.delete" ->
            Emit(Channel("update", "response"), [message |-> error])
      [] OTHER -> serveError(error)

\* the path and the params a list handler hands to buildResultsMeta
MetaPath(handler, req) ==
    CASE handler = "findDocuments" -> RoutePath
      [] handler = "getDocumentByFields" -> SegmentUrl(req)
      [] OTHER -> Bool(FALSE)

MetaParamsOf(handler, req) ==
    IF handler = "socket.find" THEN req.payload ELSE req.query

\* documents.meta = meta, then serveJson(res, 200, documents) or the emit
ListAnswer(handler, documents, m) ==
    IF handler = "socket.find"
    THEN Emit(Channel("find", "response"),
              [documents |-> documents, meta |-> m])
    ELSE Response(200, [documents |-> documents, meta |-> m])

Last(seq) == seq[Len(seq)]

-----------------------------------------------------------------------------
(* The requests served, one per behaviour *)

Email == <<"e", "m", "a", "i", "l">>

\* a 24 digit hexadecimal ObjectId
SomeId == Str([i \in 1..24 |-> IF i % 2 = 0 THEN "a" ELSE "5"])

\* the path segments requested: the four aggregations, a projection list,
\* an id, a string one character short of an id
Segments ==
    { Str(Count), Str(Distinct), Str(Group), Str(Aggregate), Str(Email),
      SomeId, Str(Tail(SomeId.v)) }

ServeQueries ==
    { Map(<<>>),
      Map(<<Pair(<<"email">>, SX)>>),
      PagedParams,
      Map(<<Pair(<<"limit">>, Str(<<"1">>))>>),
      Map(<<Pair(<<"_query">>, NotJson), Pair(<<"email">>, SX)>>),
      Map(<<Pair(<<"_query">>,
                 JsonText(Map(<<Pair(<<"email">>,
                                     Map(<<Pair(<<"$gt">>, SX)>>))>>)))>>),
      Map(<<Pair(<<"email", "contains">>, Str(<<"5">>))>>),
      Map(<<Pair(<<"sort">>, Map(<<Pair(<<"email">>, Str(<<"1">>))>>))>>) }

SegmentQueries ==
    { Map(<<>>),
      Map(<<Pair(<<"email", "contains">>, Str(<<"5">>))>>),
      Map(<<Pair(<<"query">>, JsonText(Map(<<Pair(<<"email">>, SX),
                                             Pair(<<"bogus">>, SX)>>))),
            Pair(<<"select">>, Str(Email))>>),
      Map(<<Pair(<<"group">>,
                 JsonText(Map(<<Pair(<<"_id">>, Str(<<"$">> \o Email))>>))),
            Pair(<<"limit">>, Str(<<"1">>))>>) }

ServeBodies == { Map(<<>>), Map(<<Pair(<<"email">>, SX)>>) }

Methods == {"GET", "POST", "PUT", "DELETE"}

RestRequests ==
    [transport : {"rest"}, method : Methods, shape : {"/"}, verb : {"none"},
     query : ServeQueries, body : ServeBodies, payload : {Unused},
     id : {Unused}, projection : {Unused}]
    \cup
    [transport : {"rest"}, method : Methods, shape : {"/:segment"},
     verb : {"none"}, query : SegmentQueries, body : ServeBodies,
     payload : {Unused}, id : Segments, projection : {Unused}]
    \cup
    [transport : {"rest"}, method : Methods, shape : {"/:id/:projection"},
     verb : {"none"}, query : {Map(<<>>)}, body : ServeBodies,
     payload : {Unused}, id : {SomeId}, projection : {Str(Email)}]

SocketRequests ==
    [transport : {"socket"}, method : {"none"}, shape : {"none"},
     verb : DOMAIN Listeners, query : {Unused}, body : {Unused},
     payload : SocketPayloads, id : {Unused}, projection : {Unused}]

ServeRequests == RestRequests \cup SocketRequests

InitServe ==
    /\ pc = "received"
    /\ request \in ServeRequests
    /\ owned = [query |-> request.query, body |-> request.body,
                payload |-> request.payload]
    /\ store \in 0..MaxDocs
    /\ sent = <<>>
    /\ issued = <<>>
    /\ trail = <<>>
    /\ promise = Unused
    /\ config = DefaultConfig
    /\ fields = WhitelistFull
    /\ bound = <<>>
    /\ args = Unused
    /\ meta = Unused
    /\ params = Unused
    /\ compiled = NotYet
    /\ recompiled = NotYet

\* req, or the payload of the event, as the handler finds it
ServeReq ==
    [query |-> owned.query, body |-> owned.body, payload |-> owned.payload,
     id |-> request.id, projection |-> request.projection]

\* config.authenticateUser, registered before the handler of every route:
\* the default calls next()
AuthenticateUser ==
    /\ pc = "received"
    /\ request.transport = "rest"
    /\ HandlerInTurn(request, trail) # "none"
    /\ trail' = Append(trail, "authenticateUser")
    /\ pc' = "authenticated"
    /\ UNCHANGED <<compVars, crudVars, handlerVars, bound, store, promise>>

\* a handler runs to its return: it has thrown, passed on with next(),
\* answered, or made its call to the store
Handle(name, h) ==
    /\ trail' = Append(trail, name)
    /\ owned' = h.owned
    /\ issued' = issued \o h.calls
    /\ sent' = sent \o h.sent
    /\ pc' = CASE h.err = "next" -> "received"
               [] h.err # "none" -> "threw"
               [] h.calls = <<>> -> "answered"
               [] OTHER -> "awaiting"
    /\ promise' = IF h.err = "none" /\ h.calls # <<>> THEN Pending ELSE promise
    /\ UNCHANGED <<compVars, config, args, meta, request, bound, store>>

\* express calls the handler of the route in turn, after the hook
Routed(name) == pc = "authenticated" /\ HandlerInTurn(request, trail) = name

\* socket.io calls the listener of the event
Heard(verb) ==
    pc = "received" /\ request.transport = "socket" /\ request.verb = verb

CreateDocument ==
    Routed("createDocument")
        /\ Handle("createDocument", createDocument(ServeReq, fields))
FindDocuments ==
    Routed("findDocuments")
        /\ Handle("findDocuments", restFindDocuments(config, ServeReq, fields))
UpdateDocuments ==
    Routed("updateDocuments")
        /\ Handle("updateDocuments", updateDocuments(ServeReq, fields))
DeleteDocuments ==
    Routed("deleteDocuments")
        /\ Handle("deleteDocuments", deleteDocuments(ServeReq, fields))
PostAggregationQuery ==
    Routed("postAggregationQuery")
        /\ Handle("postAggregationQuery", postAggregationQuery(ServeReq, fields))
PostDocumentById ==
    Routed("postDocumentById")
        /\ Handle("postDocumentById", postDocumentById(ServeReq))
GetDocumentByFields ==
    Routed("getDocumentByFields")
        /\ Handle("getDocumentByFields",
                  getDocumentByFields(config, ServeReq, fields))
GetDocumentById ==
    Routed("getDocumentById")
        /\ Handle("getDocumentById", getDocumentById(ServeReq))
UpdateDocumentById ==
    Routed("updateDocumentById")
        /\ Handle("updateDocumentById", updateDocumentById(ServeReq, fields))
DeleteDocumentById ==
    Routed("deleteDocumentById")
        /\ Handle("deleteDocumentById", deleteDocumentById(ServeReq))
PostDocumentByIdWithProjection ==
    Routed("postDocumentByIdWithProjection")
        /\ Handle("postDocumentByIdWithProjection",
                  postDocumentByIdWithProjection(ServeReq))
GetDocumentByIdWithProjection ==
    Routed("getDocumentByIdWithProjection")
        /\ Handle("getDocumentByIdWithProjection",
                  getDocumentByIdWithProjection(ServeReq))
PutDocumentByIdWithProjection ==
    Routed("putDocumentByIdWithProjection")
        /\ Handle("putDocumentByIdWithProjection",
                  putDocumentByIdWithProjection(ServeReq))
DeleteDocumentByIdWithProjection ==
    Routed("deleteDocumentByIdWithProjection")
        /\ Handle("deleteDocumentByIdWithProjection",
                  deleteDocumentByIdWithProjection(ServeReq))
OnSave ==
    Heard("save") /\ Handle(Listeners.save, socketSaveDocument(ServeReq, fields))
OnFind ==
    Heard("find")
        /\ Handle(Listeners.find, socketFindDocuments(config, ServeReq, fields))
OnUpdate ==
    Heard("update")
        /\ Handle(Listeners.update, socketUpdateDocument(ServeReq, fields))
OnDelete ==
    Heard("delete")
        /\ Handle(Listeners.delete, socketDeleteDocuments(ServeReq, fields))

\* the store calls back without an error: the promise of the crud call is
\* fulfilled and the onFulfilled callback of the handler runs; that of a
\* list handler calls buildResultsMeta, which issues the count
StoreFulfils ==
    /\ pc = "awaiting"
    /\ Runs(Last(issued))
    /\ promise' = Fulfilled(ResultOf(Last(issued), store))
    /\ store' = IF Last(issued).op = "remove" THEN 0 ELSE store
    /\ IF Last(issued).op = "find"
       THEN /\ meta' = [state |-> "pending",
                        value |-> MetaBeforeCount(config,
                                      MetaPath(Last(trail), ServeReq),
                                      MetaParamsOf(Last(trail), ServeReq))]
            /\ issued' = Append(issued, crudCount(Last(issued).query))
            /\ pc' = "counting"
            /\ UNCHANGED sent
       ELSE /\ sent' = Append(sent, OnFulfilled(Last(trail), ServeReq,
                                                ResultOf(Last(issued), store)))
            /\ pc' = "answered"
            /\ UNCHANGED <<meta, issued>>
    /\ UNCHANGED <<compVars, config, args, request, owned, bound, trail>>

\* the store calls back with an error: the promise is rejected and the
\* onRejected callback of the handler runs
StoreRejects ==
    /\ pc = "awaiting"
    /\ \E error \in ServeErrors :
          /\ promise' = Rejected(error)
          /\ sent' = Append(sent, OnRejected(Last(trail), error))
    /\ pc' = "answered"
    /\ UNCHANGED <<compVars, crudVars, request, owned, bound, store, trail>>

\* the count of buildResultsMeta is called back with the number of matching
\* documents: the meta is resolved and the list is answered
CountFulfils ==
    /\ pc = "counting"
    /\ meta' = MetaOnFulfilled(meta.value, MetaPath(Last(trail), ServeReq),
                               MetaParamsOf(Last(trail), ServeReq), Num(store))
    /\ sent' = Append(sent, ListAnswer(Last(trail), promise.value, meta'.value))
    /\ pc' = "answered"
    /\ UNCHANGED <<compVars, config, args, issued, request, owned, serveVars>>

\* the count is called back with an error: the meta is resolved all the same
CountRejects ==
    /\ pc = "counting"
    /\ \E error \in ServeErrors :
          /\ meta' = MetaOnRejected(meta.value, error)
          /\ sent' = Append(sent, ListAnswer(Last(trail), promise.value,
                                             meta'.value))
    /\ pc' = "answered"
    /\ UNCHANGED <<compVars, config, args, issued, request, owned, serveVars>>

\* another request creates or removes documents of the collection while
\* this one waits for the store
OtherRequestWrites ==
    /\ pc \in {"awaiting", "counting"}
    /\ \E n \in 0..MaxDocs : n # store /\ store' = n
    /\ UNCHANGED <<pc, compVars, crudVars, handlerVars, bound, promise, trail>>

NextServe ==
    \/ AuthenticateUser
    \/ CreateDocument
    \/ FindDocuments
    \/ UpdateDocuments
    \/ DeleteDocuments
    \/ PostAggregationQuery
    \/ PostDocumentById
    \/ GetDocumentByFields
    \/ GetDocumentById
    \/ UpdateDocumentById
    \/ DeleteDocumentById
    \/ PostDocumentByIdWithProjection
    \/ GetDocumentByIdWithProjection
    \/ PutDocumentByIdWithProjection
    \/ DeleteDocumentByIdWithProjection
    \/ OnSave
    \/ OnFind
    \/ OnUpdate
    \/ OnDelete
    \/ StoreFulfils
    \/ StoreRejects
    \/ CountFulfils
    \/ CountRejects
    \/ OtherRequestWrites

SpecServe == InitServe /\ [][NextServe]_vars

-----------------------------------------------------------------------------
(* Properties of the requests served *)

\* C11: the listener of a socket event api.samples.<verb> emits only on the
\* channels of its own verb: on <verb>.response once its crud call is
\* fulfilled, on <verb>.error once it is rejected.
C11_OwnChannels ==
    request.transport = "socket"
        => \A i \in 1..Len(sent) :
              /\ sent[i].channel[3] = request.verb
              /\ promise.state = "fulfilled" => sent[i].channel[4] = "response"
              /\ promise.state = "rejected" => sent[i].channel[4] = "error"

\* C12: a call is made to the store only for a request for which the
\* authenticateUser hook has run and passed control on.
C12_HookBeforeEveryCall ==
    issued # <<>> => (trail # <<>> /\ trail[1] = "authenticateUser")

\* the handler that answers a GET on a path segment
Aggregations == {Count, Distinct, Group, Aggregate}

IsObjectId(segment) ==
    /\ Len(segment) = 24
    /\ \A i \in 1..24 : segment[i] \in HexDigits

Answering(segment) ==
    IF segment \in Aggregations THEN "postAggregationQuery"
    ELSE IF IsObjectId(segment) THEN "getDocumentById"
    ELSE "getDocumentByFields"

SegmentChain ==
    <<"postAggregationQuery", "getDocumentByFields", "getDocumentById">>

AnswersNotFound ==
    { "getDocumentById", "getDocumentByIdWithProjection", "updateDocumentById",
      "deleteDocumentById", "updateDocuments" }

\* the promise of the handler's crud call has settled as said and the
\* handler's callback has answered
Settled(state) ==
    /\ request.transport = "rest"
    /\ pc = "answered"
    /\ promise # Unused
    /\ promise.state = state

\* C15: a GET, PUT or DELETE by id, and a PUT on the collection root, whose
\* store operation fulfils with no document or with 0 is answered with 404
\* and a message, never with 500; fulfilling with a document or a positive
\* count it is answered with 200.
C15_EmptyResultIs404 ==
    (Settled("fulfilled") /\ Last(trail) \in AnswersNotFound)
        => /\ Len(sent) = 1
           /\ IF promise.value \in {Null, Num(0)}
              THEN /\ sent[1].code = 404
                   /\ DOMAIN sent[1].body = {"message"}
                   /\ sent[1].body.message
                        \in {"Resource not found", "Resources not found"}
              ELSE sent[1].code = 200

\* GET of an id no document has: findById fulfils with null, 404
C15_Witness ==
    /\ Settled("fulfilled")
    /\ Last(trail) = "getDocumentById"
    /\ request.id = SomeId
    /\ promise.value = Null
    /\ sent = <<Response(404, [message |-> "Resource not found"])>>

\* C16: when the crud operation a REST handler invoked rejects, the handler
\* answers 500 with a body that holds a message and nothing else; when the
\* create of POST on the collection root fulfils, the answer is 201 with the
\* message "Resource created" and the created document.
C16_RejectionIs500 ==
    /\ Settled("rejected")
          => /\ Last(sent).code = 500
             /\ DOMAIN Last(sent).body = {"message"}
             /\ Last(sent).body.message =
                  (IF promise.value.v # "" THEN promise.value.v
                   ELSE "Unknown error.")
    /\ (Settled("fulfilled") /\ Last(trail) = "createDocument")
          => /\ sent = <<Response(201, [message |-> "Resource created",
                                        document |-> promise.value])>>
             /\ promise.value = issued[1].document

\* a POST whose create the store rejects with a validation error
C16_Witness ==
    /\ Settled("rejected")
    /\ Last(trail) = "createDocument"
    /\ promise.value = ErrorOf("Validation failed")
    /\ sent = <<Response(500, [message |-> "Validation failed"])>>

\* the routes that are not supported
IsNotSupported(req) ==
    /\ req.transport = "rest"
    /\ \/ req.method = "POST" /\ req.shape = "/:segment"
       \/ req.method \in {"POST", "PUT", "DELETE"}
            /\ req.shape = "/:id/:projection"

\* what the handler of a route that is not supported sends for a request
AnswerOfNotSupported(handler, req) ==
    CASE handler = "postDocumentById" -> postDocumentById(req).sent
      [] handler = "postDocumentByIdWithProjection" ->
            postDocumentByIdWithProjection(req).sent
      [] handler = "putDocumentByIdWithProjection" ->
            putDocumentByIdWithProjection(req).sent
      [] handler = "deleteDocumentByIdWithProjection" ->
            deleteDocumentByIdWithProjection(req).sent

\* C17: POST on an id and POST, PUT and DELETE on an id with a projection
\* answer 405 with a message that does not depend on the request, whatever
\* the request holds, and no call is made to the store.
C17_NotSupportedIs405 ==
    IsNotSupported(request)
        => /\ issued = <<>>
           /\ pc \in {"received", "authenticated", "answered"}
           /\ Len(HandlersRun(trail)) <= 1
           /\ owned.query = request.query /\ owned.body = request.body
           /\ IF HandlersRun(trail) = <<>> THEN sent = <<>>
              ELSE /\ pc = "answered"
                   /\ Len(sent) = 1
                   /\ sent[1].code = 405
                   /\ DOMAIN sent[1].body = {"message"}
                   /\ \A other \in RestRequests :
                         (other.method = request.method
                            /\ other.shape = request.shape)
                         => sent = AnswerOfNotSupported(Last(trail), other)

\* a PUT on an id with a projection, carrying a document, answered 405
C17_Witness ==
    /\ request.method = "PUT"
    /\ request.shape = "/:id/:projection"
    /\ request.body # Map(<<>>)
    /\ pc = "answered"
    /\ issued = <<>>
    /\ sent[1].code = 405


\* a GET on the collection root whose _query is given and is not JSON
HasUnparseableQuery(req) ==
    /\ req.transport = "rest" /\ req.method = "GET" /\ req.shape = "/"
    /\ Truthy(Get(req.query.v, <<"_query">>))
    /\ Get(req.query.v, <<"_query">>).t # "json"

\* C18: when the _query of a GET on the collection root does not parse as
\* JSON, the handler sends a 500 and goes on with the request parameters as
\* they were: the find is issued with the query compiled from them, and once
\* it is fulfilled the count of the pagination is issued with the same query.
C18_GoesOnAfterBadQuery ==
    (HasUnparseableQuery(request) /\ HandlersRun(trail) # <<>>)
        => /\ HandlersRun(trail) = <<"findDocuments">>
           /\ sent # <<>>
           /\ sent[1] = Response(500, [message |->
                              "Unable to parese query string as JSON"])
           /\ owned.query = request.query
           /\ pc # "threw"
           /\ issued # <<>>
           /\ issued[1].op = "find"
           /\ issued[1].query =
                 buildQueryFromParams(request.query, fields, <<>>).val
           /\ promise.state = "fulfilled"
                 => /\ Len(issued) = 2
                    /\ issued[2] = crudCount(issued[1].query)

\* the list is answered after the 500: find and count were both issued with
\* { email: 'x' }, compiled from ?_query={&email=x
C18_Witness ==
    /\ HasUnparseableQuery(request)
    /\ pc = "answered"
    /\ promise.state = "fulfilled"
    /\ Len(sent) = 2
    /\ sent[1].code = 500
    /\ sent[2].code = 200
    /\ issued = << issued[1], crudCount(Map(<<Pair(<<"email">>, SX)>>)) >>
    /\ issued[1].query = Map(<<Pair(<<"email">>, SX)>>)


\* C20: a list answered by GET on the collection root with no limit in
\* effect (limit 0) carries in meta.documents the number of documents of its
\* documents array, also when other requests write to the collection between
\* the find and the count.
C20_CountIsDocuments ==
    ( /\ request.transport = "rest"
      /\ request.method = "GET" /\ request.shape = "/"
      /\ pc = "answered"
      /\ promise # Unused
      /\ promise.state = "fulfilled"
      /\ ToNumber(issued[1].limit) = Num(0)
      /\ meta.value.documents.t = "num" )
        => /\ Last(sent).code = 200
           /\ Last(sent).body.meta.documents
                 = Num(Len(Last(sent).body.documents.v))


-----------------------------------------------------------------------------
(* The bind calls: serveRoutes, serveSockets and serveCrud, each with the   *)
(* overrides of its caller, and a find through a set bound earlier          *)

\* most bind calls made
MaxBinds == 3

\* the overrides a bind call is given; Undefined stands for a key the
\* override does not hold
NoOverride ==
    [queryLimit |-> Undefined, queryOffset |-> Undefined,
     querySort |-> Undefined]

Overrides ==
    { NoOverride,
      [NoOverride EXCEPT !.queryLimit = Num(5)],
      [NoOverride EXCEPT !.queryLimit = Num(10), !.queryOffset = Num(5)],
      [NoOverride EXCEPT !.querySort = Map(<<Pair(<<"email">>, Num(1))>>)] }

\* _.extend(exports.config, config || {}): the keys of the override are
\* written into exports.config itself, which is returned
ExtendConfig(cfg, override) ==
    [k \in DOMAIN cfg |->
        IF override[k] # Undefined THEN override[k] ELSE cfg[k]]

InitBind ==
    /\ pc = "binding"
    /\ config = DefaultConfig
    /\ bound = <<>>
    /\ issued = <<>>
    /\ trail = <<>>
    /\ args = Unused
    /\ fields = WhitelistFull
    /\ store = Unused
    /\ promise = Unused
    /\ meta = Unused
    /\ request = Unused
    /\ owned = Unused
    /\ sent = <<>>
    /\ params = Unused
    /\ compiled = NotYet
    /\ recompiled = NotYet

\* a bind call: config = _.extend(exports.config, config || {}), then the
\* handlers or the CRUD set are created around config, which is
\* exports.config; atBind is what the configuration holds as the call returns
Bind(kind) ==
    /\ pc = "binding"
    /\ Len(bound) < MaxBinds
    /\ \E override \in Overrides :
          /\ config' = ExtendConfig(config, override)
          /\ bound' = Append(bound, [kind |-> kind,
                                     atBind |-> ExtendConfig(config, override)])
    /\ UNCHANGED <<pc, compVars, args, issued, meta, handlerVars, store,
                   promise, trail>>

ServeRoutes == Bind("serveRoutes")
ServeSockets == Bind("serveSockets")
ServeCrud == Bind("serveCrud")

\* a find through the set bound by the i-th call (a GET on its collection
\* root, a find event, or api.find): crud.find reads config.queryLimit,
\* config.querySort and config.queryOffset as the call is made
FindThroughBound ==
    /\ pc = "binding"
    /\ \E i \in 1..Len(bound), limit \in {Undefined, Str(<<"1">>)} :
          /\ args' = [limit |-> limit]
          /\ trail' = <<i>>
          /\ issued' = <<crudFind(config, fields, Map(<<>>), limit, Undefined,
                                  Map(<<>>), Undefined).call>>
    /\ pc' = "found"
    /\ UNCHANGED <<compVars, config, meta, handlerVars, bound, store, promise>>

NextBind ==
    \/ ServeRoutes
    \/ ServeSockets
    \/ ServeCrud
    \/ FindThroughBound

SpecBind == InitBind /\ [][NextBind]_vars

\* C13: the configuration is per bind call: a set bound by an earlier call
\* keeps using the queryLimit, queryOffset and querySort in effect at its own
\* bind, whatever the later calls override, and the default configuration of
\* the module stays as it was.
C13_ConfigPerBind ==
    /\ config = DefaultConfig
    /\ (pc = "found" /\ args.limit = Undefined)
          => /\ issued[1].limit = bound[trail[1]].atBind.queryLimit
             /\ issued[1].skip = bound[trail[1]].atBind.queryOffset
             /\ issued[1].sort = bound[trail[1]].atBind.querySort


-----------------------------------------------------------------------------
(* The CRUD operations called on their own, one call per behaviour: the    *)
(* operation runs to its return, then the store calls back                 *)

Foo == Str(<<"f", "o", "o">>)

\* the calls made: args.op is the operation, the other fields its arguments
CrudCalls ==
    [op : {"save"}, document : {Map(<<Pair(<<"email">>, SX)>>), Foo}]
    \cup [op : {"find"}, find : FindArgs]
    \cup [op : {"findById"}, id : {SomeId}, projection : {Undefined}]
    \cup [op : {"update"}, query : PlainParams,
          document : {Map(<<Pair(<<"email">>, SX)>>)}]
    \cup [op : {"remove", "count", "group", "aggregate"}, query : PlainParams]
    \cup [op : {"distinct"}, select : {Str(Email)}, query : PlainParams]

\* a document the model cannot be created from: crud.save('foo')
Malformed(document) == document.t # "map"

InitCrud ==
    /\ pc = "start"
    /\ args \in CrudCalls
    /\ store \in 0..MaxDocs
    /\ config = DefaultConfig
    /\ fields = WhitelistFull
    /\ promise = Unused
    /\ issued = <<>>
    /\ trail = <<>>
    /\ bound = <<>>
    /\ meta = Unused
    /\ request = Unused
    /\ owned = Unused
    /\ sent = <<>>
    /\ params = Unused
    /\ compiled = NotYet
    /\ recompiled = NotYet

\* the operation has made its call to the store and returns deferred.promise
Returned(call) ==
    /\ issued' = <<call>>
    /\ promise' = Pending
    /\ pc' = "awaiting"
    /\ UNCHANGED <<compVars, config, args, meta, handlerVars, bound, store,
                   trail>>

\* the operation throws before it returns: its caller gets no promise
Thrown(error) ==
    /\ pc' = "threw"
    /\ trail' = <<error>>
    /\ UNCHANGED <<compVars, crudVars, handlerVars, bound, store, promise>>

Calling(op) == pc = "start" /\ args.op = op

\* crud.save: Model.create inside try; what it throws is caught and rejects
\* the promise
CallSave ==
    /\ Calling("save")
    /\ \/ Returned(crudSave(args.document))
       \/ /\ Malformed(args.document)
          /\ issued' = <<crudSave(args.document)>>
          /\ promise' = Rejected(ErrorOf("Validation failed"))
          /\ trail' = <<"caught">>
          /\ pc' = "settled"
          /\ UNCHANGED <<compVars, config, args, meta, handlerVars, bound,
                         store>>

\* crud.find: the sort is split and compiled before the call is made, with
\* no try around it
CallFind ==
    /\ Calling("find")
    /\ LET Made(f) == IF f.err = "none" THEN Returned(f.call)
                      ELSE Thrown(f.err)
       IN  Made(crudFind(config, fields, args.find.query, args.find.limit,
                         args.find.sort, args.find.projection,
                         args.find.pageNum))

CallFindById ==
    Calling("findById") /\ Returned(crudFindById(args.id, args.projection))

CallUpdate ==
    Calling("update") /\ Returned(crudUpdate(args.query, args.document))

CallRemove == Calling("remove") /\ Returned(crudRemove(args.query))

CallCount == Calling("count") /\ Returned(crudCount(args.query))

CallDistinct ==
    Calling("distinct") /\ Returned(crudDistinct(args.select, args.query))

CallGroup == Calling("group") /\ Returned(crudGroup(args.query))

CallAggregate == Calling("aggregate") /\ Returned(crudAggregate(args.query))

\* the callback handed to the store runs without an error: deferred.resolve
CallbackWithResult ==
    /\ pc = "awaiting"
    /\ Runs(issued[1])
    /\ issued[1].op = "create" => ~Malformed(issued[1].document)
    /\ promise' = Fulfilled(ResultOf(issued[1], store))
    /\ trail' = <<"result">>
    /\ pc' = "settled"
    /\ UNCHANGED <<compVars, crudVars, handlerVars, bound, store>>

\* the callback runs with an error: deferred.reject
CallbackWithError ==
    /\ pc = "awaiting"
    /\ \E error \in ServeErrors : promise' = Rejected(error)
    /\ trail' = <<"error">>
    /\ pc' = "settled"
    /\ UNCHANGED <<compVars, crudVars, handlerVars, bound, store>>

NextCrud ==
    \/ CallSave
    \/ CallFind
    \/ CallFindById
    \/ CallUpdate
    \/ CallRemove
    \/ CallCount
    \/ CallDistinct
    \/ CallGroup
    \/ CallAggregate
    \/ CallbackWithResult
    \/ CallbackWithError

SpecCrud == InitCrud /\ [][NextCrud]_vars

\* C19: every call of a CRUD operation returns a promise, settled once:
\* rejected if and only if the store reported an error or threw during save,
\* fulfilled with the store's result otherwise; a query matching nothing
\* fulfils, with an empty sequence for find and 0 for update and remove, and a
\* malformed document rejects on save.
C19_PromiseSettledOnce ==
    /\ pc # "threw"
    /\ pc = "awaiting" => promise = Pending
    /\ pc = "settled"
          => /\ Len(trail) = 1
             /\ promise.state = "rejected" <=> trail[1] \in {"error", "caught"}
             /\ promise.state = "fulfilled"
                   => promise.value = ResultOf(issued[1], store)
             /\ (args.op = "save" /\ Malformed(args.document))
                   => promise.state = "rejected"
             /\ (promise.state = "fulfilled" /\ store = 0)
                   => /\ args.op = "find" => promise.value = Arr(<<>>)
                      /\ args.op \in {"update", "remove"}
                            => promise.value = Num(0)


-----------------------------------------------------------------------------
(* The whitelist derived at bind time: getSchemaFields and getVirtualFields *)
(* applied to bounded mongoose schemas                                      *)

\* most paths of a schema
MaxPaths == 2

\* config.schemaFieldIgnore
schemaFieldIgnore == { "__v" }

\* a path of schema.paths without a nested schema
NoSchema == Undefined

\* the sequences of at most n paths of S, no key twice
PathsOf(S, n) ==
    { s \in UNION { [1..k -> S] : k \in 0..n } :
        \A i, j \in DOMAIN s : i # j => s[i].key # s[j].key }

\* the schemas of sub-documents: value.schema
NestedSchemas ==
    { [paths |-> p, virtuals |-> <<>>] :
        p \in PathsOf([key : {"first", "__v"}, caster : BOOLEAN,
                       schema : {NoSchema}], 2) }

\* Model.schema: paths with value.caster (arrays and sub-documents) and
\* value.schema, and the names of the virtuals
Schemas ==
    { [paths |-> p, virtuals |-> v] :
        p \in PathsOf([key : {"tags", "__v"}, caster : BOOLEAN,
                       schema : {NoSchema} \cup NestedSchemas], MaxPaths),
        v \in {<<>>, <<"id">>, <<"id", "__v">>, <<"tags">>} }

\* return fields.push(field): reached whatever value.caster and value.schema
\* are
OwnPath(value, field) == <<field>>

\* getSchemaFields(schema, fields, context): the array fields, here list,
\* after the paths from the i-th on have been visited; a path is the sequence of its
\* dot-separated parts
RECURSIVE getSchemaFields(_, _, _, _)
getSchemaFields(paths, i, list, context) ==
    IF i > Len(paths) THEN list
    ELSE IF paths[i].key \in schemaFieldIgnore
    THEN getSchemaFields(paths, i + 1, list, context)
    ELSE LET Pushed(value, field) ==
                 (IF value.caster THEN <<field \o <<"$">>>> ELSE <<>>)
                 \o (IF value.schema # NoSchema
                     THEN getSchemaFields(value.schema.paths, 1,
                              getSchemaFields(value.schema.paths, 1, <<>>,
                                              field),
                              field \o <<"$">>)
                     ELSE <<>>)
                 \o OwnPath(value, field)
         IN  getSchemaFields(paths, i + 1,
                             list \o Pushed(paths[i],
                                              context \o <<paths[i].key>>),
                             context)

\* getVirtualFields(schema): the names of the virtuals that are not ignored
getVirtualFields(schema) ==
    LET kept == SelectSeq(schema.virtuals,
                          LAMBDA key : key \notin schemaFieldIgnore)
    IN  [i \in 1..Len(kept) |-> <<kept[i]>>]

\* _.union(a, b): the values of both, in order, each once
RECURSIVE union(_, _)
union(seen, rest) ==
    IF rest = <<>> THEN seen
    ELSE union(IF \E i \in DOMAIN seen : seen[i] = Head(rest)
               THEN seen ELSE Append(seen, Head(rest)),
               Tail(rest))

InitSchema ==
    /\ pc = "start"
    /\ params \in Schemas
    /\ fields = Unused
    /\ compiled = NotYet
    /\ recompiled = NotYet
    /\ config = DefaultConfig
    /\ args = Unused
    /\ issued = <<>>
    /\ meta = Unused
    /\ request = Unused
    /\ owned = Unused
    /\ sent = <<>>
    /\ bound = <<>>
    /\ store = Unused
    /\ promise = Unused
    /\ trail = <<>>

\* fields = _.union(config.getSchemaFields(Model.schema),
\*                  config.getVirtualFields(Model.schema))
DeriveFields ==
    /\ pc = "start"
    /\ fields' = union(<<>>, getSchemaFields(params.paths, 1, <<>>, <<>>)
                             \o getVirtualFields(params))
    /\ pc' = "derived"
    /\ UNCHANGED <<params, compiled, recompiled, crudVars, handlerVars,
                   serveVars>>

NextSchema == DeriveFields

SpecSchema == InitSchema /\ [][NextSchema]_vars

\* the paths the introspection rules give for a schema under a context
RECURSIVE Introspected(_, _)
Introspected(paths, context) ==
    UNION { LET field == context \o <<paths[i].key>>
            IN  (IF paths[i].caster THEN {field \o <<"$">>} ELSE {})
                \cup (IF paths[i].schema # NoSchema
                      THEN Introspected(paths[i].schema.paths, field)
                           \cup Introspected(paths[i].schema.paths,
                                             field \o <<"$">>)
                      ELSE {field}) :
            i \in { j \in DOMAIN paths : paths[j].key \notin schemaFieldIgnore } }

\* C21: the whitelist derived at bind time has no path twice and holds
\* exactly the paths of the introspection rules: field.$ if and only if the
\* field is an array or holds sub-documents, the paths of a nested schema
\* under field and under field.$, the field's own path only when it has no
\* nested schema, and every virtual that is not ignored.
C21_WhitelistAsIntrospected ==
    pc = "derived"
        => /\ \A i, j \in DOMAIN fields : i # j => fields[i] # fields[j]
           /\ { fields[i] : i \in DOMAIN fields }
                 = Introspected(params.paths, <<>>)
                   \cup { <<params.virtuals[i]>> :
                            i \in { j \in DOMAIN params.virtuals :
                                      params.virtuals[j]
                                          \notin schemaFieldIgnore } }


-----------------------------------------------------------------------------
(* config.processModifier applied to bounded values *)

\* longest value handed to a modifier
MaxValueLen == 5

\* the values: the strings over "/", "a" and "i", "/ab+c/i" and "plain"
ModifierValues ==
    { Str(s) : s \in UNION { [1..n -> {"/", "a", "i"}] : n \in 0..MaxValueLen } }
    \cup { Str(<<"/", "a", "b", "+", "c", "/", "i">>),
           Str(<<"p", "l", "a", "i", "n">>) }

InitModifier ==
    /\ pc = "start"
    /\ params \in ModifierValues
    /\ args \in fieldModifiers
    /\ compiled = NotYet
    /\ recompiled = NotYet
    /\ fields = Unused
    /\ config = DefaultConfig
    /\ issued = <<>>
    /\ meta = Unused
    /\ request = Unused
    /\ owned = Unused
    /\ sent = <<>>
    /\ bound = <<>>
    /\ store = Unused
    /\ promise = Unused
    /\ trail = <<>>

\* config.processModifier(modifier, value): what it returns or throws
ProcessModifier ==
    /\ pc = "start"
    /\ compiled' = processModifier(args, params)
    /\ pc' = "done"
    /\ UNCHANGED <<params, fields, recompiled, crudVars, handlerVars,
                   serveVars>>

NextModifier == ProcessModifier

SpecModifier == InitModifier /\ [][NextModifier]_vars

\* the places of "/" in a string
Slashes(s) == { i \in DOMAIN s : s[i] = "/" }

\* the directive made of a pattern and flags, or the error of a pattern or
\* flags that are no regular expression
DirectiveOf(pattern, flags) ==
    IF NewRegExp(pattern, flags).err # "none" THEN NewRegExp(pattern, flags)
    ELSE Ok(Directive(Re(pattern, flags)))

\* C22: the regex modifier turns a value that starts with "/" into the
\* directive whose pattern is the text between the first "/" and the last
\* one and whose flags are the text after the last, and any other value into
\* the directive whose pattern is the whole value, without flags.
C22_RegexBetweenDelimiters ==
    (pc = "done" /\ args = "regex")
        => IF 1 \in Slashes(params.v)
           THEN \A last \in Slashes(params.v) :
                   (last > 1 /\ \A i \in Slashes(params.v) : i <= last)
                   => compiled = DirectiveOf(
                                    SubSeq(params.v, 2, last - 1),
                                    SubSeq(params.v, last + 1, Len(params.v)))
           ELSE compiled = DirectiveOf(params.v, <<>>)


\* every key of x that holds a value other than a mapping or an array is a
\* whitelisted field path or an operator name
RECURSIVE LeavesAllowed(_, _, _)
LeavesAllowed(x, whitelist, context) ==
    CASE x.t = "map" ->
            \A i \in 1..Len(x.v) :
                IF x.v[i].val.t \in {"map", "arr"}
                THEN LeavesAllowed(x.v[i].val, whitelist,
                                   ChildContext(context, x.v[i].k))
                ELSE Allowed(whitelist, context, x.v[i].k)
      [] x.t = "arr" ->
            \A i \in 1..Len(x.v) : LeavesAllowed(x.v[i], whitelist, context)
      [] OTHER -> TRUE

\* C23: a socket find or delete whose payload has an id or _id issues a query
\* whose _id is that id; a socket update issues the compiled _query of the
\* payload as its match query when that is not empty and { _id: id }
\* otherwise, with an update document that holds whitelisted fields and
\* operator keys only, and no _query.
C23_SocketIdAndQuery ==
    (request.transport = "socket" /\ issued # <<>>)
        => /\ (request.verb \in {"find", "delete"}
                 /\ Truthy(IdOf(request.payload.v)))
              => Get(issued[1].query.v, <<"_id">>) = IdOf(request.payload.v)
           /\ request.verb = "update"
              => /\ issued[1].query =
                      (IF buildQueryFromParams(
                              Map(PropertiesOf(Get(request.payload.v,
                                                   <<"_query">>))),
                              fields, <<>>).val.v # <<>>
                       THEN buildQueryFromParams(
                              Map(PropertiesOf(Get(request.payload.v,
                                                   <<"_query">>))),
                              fields, <<>>).val
                       ELSE Map(<<Pair(<<"_id">>, IdOf(request.payload.v))>>))
                 /\ LeavesAllowed(issued[1].document, fields, <<>>)
                 /\ ~HasKey(issued[1].document.v, <<"_query">>)


-----------------------------------------------------------------------------
(* The compiler applied to collections of sub-objects: arrays, and the     *)
(* mappings with the keys "0", "1", ... that a query string parser gives    *)

\* most elements of a collection
MaxElements == 2

\* the elements: a scalar, or a sub-object with one property
Elements ==
    Leaves \cup { Map(<<Pair(k, x)>>) :
                    k \in {<<"first">>, <<"email">>, <<"bogus">>}, x \in Leaves }

\* the key of the i-th element of a mapping that stands for an array: the
\* one-digit numeral of i - 1, a key of one segment
IndexKey(i) == Digits(i - 1)

\* a collection as an array and as a mapping of its indexes
Collections ==
    UNION { { Arr(xs), Map([i \in 1..Len(xs) |-> Pair(IndexKey(i), xs[i])]) } :
              xs \in UNION { [1..n -> Elements] : n \in 1..MaxElements } }

\* a collection under a field or under an operator
IndexedParams ==
    { Map(<<Pair(k, c)>>) : k \in {<<"name">>, <<"$or">>}, c \in Collections }

InitIndexed ==
    /\ pc = "start"
    /\ params \in IndexedParams
    /\ fields \in Whitelists
    /\ compiled = NotYet
    /\ recompiled = NotYet
    /\ bound = <<>>
    /\ store = Unused
    /\ promise = Unused
    /\ trail = <<>>
    /\ config = Unused
    /\ args = Unused
    /\ issued = <<>>
    /\ meta = Unused
    /\ request = Unused
    /\ owned = Unused
    /\ sent = <<>>

SpecIndexed == InitIndexed /\ [][NextCompile]_vars

\* C24: under a key that is an index the value is compiled with the context
\* of the collection, the index adding nothing to the dotted path, and the
\* result is kept under the index whatever it is, for a collection that is
\* an array and for one that is a mapping with the keys "0", "1", ....
C24_IndexKeepsContext ==
    (pc = "compiled" /\ compiled.err = "none")
        => LET k == params.v[1].k
               c == params.v[1].val
               Under(x) ==
                   buildQueryFromParams(x, fields, ChildContext(<<>>, k)).val
           IN  Get(compiled.val.v, k) =
                  (IF c.t = "arr"
                   THEN Arr([i \in 1..Len(c.v) |-> Under(c.v[i])])
                   ELSE Map([i \in 1..Len(c.v) |->
                               Pair(c.v[i].k, Under(c.v[i].val))]))


-----------------------------------------------------------------------------
(* Properties of the compiler: operators and contexts *)

\* the single parameter compiled, when its key has no modifier
SingleParam ==
    /\ pc = "compiled"
    /\ compiled.err = "none"
    /\ Len(params.v) = 1
    /\ ~HasModifier(params.v[1].k)

\* C25: a parameter whose value is a mapping is compiled with the context
\* unchanged when its key is an operator name and with the context extended
\* by the key otherwise, so that what lies under operator keys is checked
\* against the whitelist by the path it has without them; an operator key
\* with a scalar value is kept although its path is not whitelisted.
C25_OperatorsKeepContext ==
    SingleParam
        => LET k == params.v[1].k
               v == params.v[1].val
               operator == Len(k) = 1 /\ k[1] \in queryOperatorIgnore
           IN  /\ v.t = "map"
                    => compiled.val =
                          Map(<<Pair(k, buildQueryFromParams(v, fields,
                                            IF operator THEN <<>> ELSE k).val)>>)
               /\ (operator /\ v.t \in {"str", "num"})
                    => compiled.val = params

\* { $gt: { $gt: { email: 'x' } } } with email whitelisted is kept whole
C25_Witness ==
    /\ SingleParam
    /\ fields = WhitelistFull
    /\ params = Map(<<Pair(<<"$gt">>,
                   Map(<<Pair(<<"$gt">>,
                              Map(<<Pair(<<"email">>, Str(<<"x">>))>>))>>))>>)
    /\ compiled.val = params


\* every string, number or pattern in x lies under keys that, the operator
\* names and array indexes left out, join to a whitelisted field path
RECURSIVE ConstrainsOnly(_, _, _)
ConstrainsOnly(x, whitelist, path) ==
    CASE IsDirective(x) -> path \in whitelist
      [] x.t \in {"str", "num", "re"} -> path \in whitelist
      [] x.t = "map" /\ ~IsDirective(x) ->
            \A i \in 1..Len(x.v) :
                ConstrainsOnly(x.v[i].val, whitelist,
                               IF IsOperatorKey(x.v[i].k) THEN path
                               ELSE path \o x.v[i].k)
      [] x.t = "arr" ->
            \A i \in 1..Len(x.v) : ConstrainsOnly(x.v[i], whitelist, path)
      [] OTHER -> TRUE

\* C26: no compiled query constrains a field outside the whitelist: every
\* scalar value and every pattern-match directive of the output lies under
\* non-operator, non-index keys whose dotted path is whitelisted.
C26_ConstrainsOnlyWhitelisted ==
    (pc = "compiled" /\ compiled.err = "none")
        => ConstrainsOnly(compiled.val, fields, <<>>)


\* C27: a REST request that has reached a route handler is answered exactly
\* once: at no point have two responses been sent for it, and once every
\* store call issued for it has called back one response has been sent.
C27_ExactlyOneResponse ==
    (request.transport = "rest" /\ HandlersRun(trail) # <<>>)
        => /\ Len(sent) <= 1
           /\ pc = "answered" => Len(sent) = 1


\* a bulk delete: DELETE on the collection root, or the socket delete event
IsBulkDelete(req) ==
    \/ req.transport = "rest" /\ req.method = "DELETE" /\ req.shape = "/"
    \/ req.transport = "socket" /\ req.verb = "delete"

\* the request brings at least one parameter, whatever its name
HasParameter(req) ==
    IF req.transport = "rest"
    THEN req.query.v # <<>> \/ req.body.v # <<>>
    ELSE req.payload.t = "map" /\ req.payload.v # <<>>

\* C28: a bulk delete issues the empty query, which matches every document,
\* only when the request has no parameter at all: whenever the merged
\* parameters of the request are not empty, the query of the remove is not
\* empty either.
C28_EmptyDeleteOnlyWithoutParams ==
    (IsBulkDelete(request) /\ issued # <<>> /\ HasParameter(request))
        => /\ issued[1].op = "remove"
           /\ issued[1].query # Map(<<>>)


\* a list has been answered: the find and the count of its request have
\* been called back
ListAnswered ==
    /\ pc = "answered"
    /\ Last(trail) \in {"findDocuments", "getDocumentByFields", "socket.find"}
    /\ Len(issued) = 2
    /\ issued[1].op = "find"
    /\ promise.state = "fulfilled"

\* C29: the offset and the limit of the pagination meta of a list response
\* are the skip and the limit crud.find applied to the store query that
\* fetched the documents of the response, whatever limit, offset and page
\* the request asked for.
C29_MetaAsApplied ==
    ListAnswered
        => /\ meta.value.offset = ToNumber(issued[1].skip)
           /\ meta.value.limit = ToNumber(issued[1].limit)


-----------------------------------------------------------------------------
(* PUT on an id, applied to parameters that hold ids of their own, with a   *)
(* whitelist that has the _id path and the id virtual of a schema           *)

WhitelistWithIds == WhitelistFull \cup { <<"_id">>, <<"id">> }

SY == Str(<<"y">>)

IdParams ==
    { Map(<<>>),
      Map(<<Pair(<<"email">>, SX)>>),
      Map(<<Pair(<<"email">>, SY), Pair(<<"bogus">>, SX)>>),
      Map(<<Pair(<<"_id">>, Str(<<"2">>))>>),
      Map(<<Pair(<<"id">>, Str(<<"3">>)), Pair(<<"email">>, SY)>>),
      Map(<<Pair(<<"_id">>, Map(<<Pair(<<"$gt">>, Str(<<"0">>))>>)),
            Pair(<<"name">>, Map(<<Pair(<<"first">>, SX)>>))>>),
      Map(<<Pair(<<"email", "contains">>, SX), Pair(<<"id">>, Str(<<"4">>)),
            Pair(<<"_id">>, Str(<<"5">>))>>) }

InitUpdateById ==
    /\ pc = "received"
    /\ request \in [handler : {"updateDocumentById"}, query : IdParams,
                    body : IdParams, payload : {Unused},
                    id : {Str(<<"1">>), SomeId}]
    /\ owned = [query |-> request.query, body |-> request.body,
                payload |-> request.payload]
    /\ sent = <<>>
    /\ issued = <<>>
    /\ config = DefaultConfig
    /\ fields \in {WhitelistFull, WhitelistWithIds}
    /\ args = Unused
    /\ meta = Unused
    /\ params = Unused
    /\ compiled = NotYet
    /\ recompiled = NotYet
    /\ bound = <<>>
    /\ store = Unused
    /\ promise = Unused
    /\ trail = <<>>

SpecUpdateById == InitUpdateById /\ [][RestUpdateById]_vars

\* the value a key has in the merge of the query string and the body
MergedValue(req, k) ==
    IF HasKey(req.body.v, k) THEN Get(req.body.v, k) ELSE Get(req.query.v, k)

\* the keys of the query string, then those the body adds
MergedKeys(req) ==
    KeysOf(req.query.v)
        \o SelectSeq(KeysOf(req.body.v), LAMBDA k : ~HasKey(req.query.v, k))

\* C30: PUT on an id updates with the match query { _id: the id of the
\* route }, whatever id the query string or the body holds, and with the
\* document compiled from the query string merged with the body, the body
\* overriding the query string key by key, less its keys _id and id.
C30_UpdateByRouteId ==
    (pc = "awaiting" /\ request.handler = "updateDocumentById")
        => LET merged == Map([i \in 1..Len(MergedKeys(request)) |->
                                 Pair(MergedKeys(request)[i],
                                      MergedValue(request,
                                                  MergedKeys(request)[i]))])
               document == buildQueryFromParams(merged, fields, <<>>).val
           IN  /\ Len(issued) = 1
               /\ issued[1].op = "update"
               /\ issued[1].query = Map(<<Pair(<<"_id">>, request.id)>>)
               /\ ~HasKey(issued[1].document.v, <<"_id">>)
               /\ ~HasKey(issued[1].document.v, <<"id">>)
               /\ issued[1].document =
                     Map(SelectSeq(document.v,
                                   LAMBDA p : p.k \notin {<<"_id">>, <<"id">>}))

\* ?id=3&email=y with the body { email: 'x' }, ids whitelisted: the update is
\* of the route's id, with { email: 'x' }
C30_Witness ==
    /\ pc = "awaiting"
    /\ fields = WhitelistWithIds
    /\ request.id = SomeId
    /\ request.query = Map(<<Pair(<<"id">>, Str(<<"3">>)),
                             Pair(<<"email">>, SY)>>)
    /\ request.body = Map(<<Pair(<<"email">>, SX)>>)
    /\ issued = <<crudUpdate(Map(<<Pair(<<"_id">>, SomeId)>>),
                             Map(<<Pair(<<"email">>, SX)>>))>>

=============================================================================
